---- MODULE Spec2Model ----
(***************************************************************************)
(* Mean-field toolbox for leaky integrate-and-fire populations.            *)
(*                                                                         *)
(* Three parts of the code are modelled, each with its own specification:  *)
(*   Spec    one call of the delta-synapse rate nu_0 (aux_calcs.py) or of  *)
(*           _nu0_dPhi (lif/exp.py): quadrature order search, branch       *)
(*           masks, the three Siegert branch helpers;                      *)
(*   SpecFR  the fixed-point iteration of firing_rates                     *)
(*           (meanfield_calcs.py);                                         *)
(*   SpecTF  the shift-method transfer function (lif/exp.py and            *)
(*           meanfield_calcs.py).                                          *)
(*                                                                         *)
(* Numbers.  Real values are fixed-point integers with Scale units per 1.  *)
(* The normalised coordinates y = (V - mu)/sigma live on a grid of step    *)
(* 1/2 and are stored as the integer key k = 2*y.  The special functions   *)
(* of scipy are tables over that grid.  A rate is the pair (num, den) of   *)
(* the quotient the code evaluates, so that its sign and its comparison    *)
(* with 1/tau_r are decided without rounding a division.                   *)
(***************************************************************************)
EXTENDS Integers, Sequences, FiniteSets, TLC

VARIABLES
    \* ---- one call of nu_0 / _nu0_dPhi
    pc,          \* "idle", "order", "domains", "done", "error"
    fn,          \* which function is running: "nu_0" or "_nu0_dPhi"
    args,        \* the arguments of the call
    y_th,        \* keys of (V_th_rel - mu)/sigma, one per element
    y_r,         \* keys of (V_0_rel - mu)/sigma, one per element
    a,           \* lower end of the order search's integration range (key)
    b,           \* upper end of the order search's integration range (key)
    order,       \* the loop variable of _get_erfcx_integral_gl_order
    iter,        \* loop passes of the order search completed so far
    rel_error,   \* rel_error of the last pass: [nan, v], v in units of 1e-13
    gl_order,    \* the order the search returned (0: none yet)
    mask,        \* [exc, inh, interm]: the three boolean masks
    nu,          \* the output array, one rate (num, den) per element
    calls,       \* the _erfcx_integral calls made by the branch helpers
    written,     \* per element, the branches that wrote it, in order
    result,      \* the array the call returns
    error,       \* the exception raised: [type, rel_error]; type "none": none
    tried,       \* the orders evaluated by the search, in order
    prior_failed,\* every evaluation before the last one failed the test
    order_calls, \* number of order searches started in this call
    \* ---- firing_rates (meanfield_calcs.py)
    fr_pc,       \* "idle", "loop", "done"
    fr_par,      \* per population [drive, coupling]: selects rate_function
    y0,          \* y[0]: the rates of the previous step, per population
    y1,          \* y[1]: the rates of the new step, per population
    eps,         \* max(|y[1] - y[0]|) of the last step
    \* ---- transfer function, shift method
    tf_pc,       \* "idle", "done"
    tf_fn,       \* "_transfer_function_shift" or "transfer_function_1p_shift"
    tf_args,     \* the arguments of the call
    tf_result,   \* one row per frequency, one entry per population
    tf_general,  \* the frequencies the general formula was evaluated at
    tf_error,    \* "none" or the exception that ended the call
    \* ---- exponential-synapse rates and their input-derivative
    ex_pc,       \* "idle", "done", "error"
    ex_fn,       \* the function that is running
    ex_args,     \* the arguments of the call
    ex_result,   \* what the call returned
    ex_evaluated,\* the helper functions the call evaluated
    ex_warned,   \* whether warnings.warn was called
    ex_error,    \* "none" or the exception that ended the call
    \* ---- result functions on a network (lif/exp.py)
    net_params,  \* keys of network.network_params
    net_D,       \* the delay distribution D: its rank and extents
    net_results, \* keys of network.results
    net_ec,      \* the stored effective connectivity (<<>> if none)
    net_pc,      \* "new", "idle", "done", "error"
    net_fn,      \* the result function called last
    net_error,   \* the exception of the last call: its type and name
    net_before,  \* network.results when the last call began
    net_computed, \* whether the last call ran its computation
    net_none,    \* keys of network.results whose stored value is None
    net_method,  \* the method argument of the last call ("" if it has none)
    net_returned, \* what the last call returned: "value", "None", "nothing"
    \* ---- sensitivity measure (lif/exp.py, network.py)
    sm_pc,       \* "idle", "done", "error"
    sm_fn,       \* the function called
    sm_args,     \* eigenvalues per frequency, the index the caller passes
    sm_index,    \* per frequency, the index of the projected eigenmode
    sm_error,    \* "none" or the exception that ended the call
    \* ---- propagator and power spectra (lif/exp.py)
    la_pc,       \* "idle", "done", "error"
    la_fn,       \* the function called
    la_args,     \* effective connectivity, its ndim, rates nu, sizes N
    la_result,   \* the array returned: its shape and its entries
    la_error,    \* "none" or the exception that ended the call
    \* ---- transfer_function of meanfield_calcs.py: the loop of scalar calls
    mc_pc,       \* "idle", "loop", "done"
    mc_caller,   \* the caller's V_th_rel and V_0_rel objects
    mc_par,      \* sigma per population, omegas, sqrt(tau_s / tau_m)
    mc_i,        \* the population of the next scalar call
    mc_k,        \* the index of its omega
    mc_evals,    \* the scalar calls made: what each evaluated with
    \* ---- the objects of network.py: a Network and a Circuit
    nw_pc,       \* "none", "built", "derived"
    nw_new,      \* new_network_params and new_analysis_params as given
    nw_network_params,  \* network.network_params
    nw_analysis_params, \* network.analysis_params
    circ_M,      \* circuit.M
    circ_M_full, \* circuit.M_full
    circ_ana_M,  \* circuit.ana.M
    circ_last    \* the last Circuit call: method, mask, M before, exception

varsRate == <<pc, fn, args, y_th, y_r, a, b, order, iter, rel_error, gl_order,
              mask, nu, calls, written, result, error, tried, prior_failed,
              order_calls>>

varsFR == <<fr_pc, fr_par, y0, y1, eps>>

varsTF == <<tf_pc, tf_fn, tf_args, tf_result, tf_general, tf_error>>

varsEx ==
    <<ex_pc, ex_fn, ex_args, ex_result, ex_evaluated, ex_warned, ex_error>>

varsNet ==
    <<net_params, net_D, net_results, net_ec, net_pc, net_fn, net_error,
      net_before, net_computed, net_none, net_method, net_returned>>

varsSens == <<sm_pc, sm_fn, sm_args, sm_index, sm_error>>

varsLin == <<la_pc, la_fn, la_args, la_result, la_error>>

varsMC == <<mc_pc, mc_caller, mc_par, mc_i, mc_k, mc_evals>>

varsObj ==
    <<nw_pc, nw_new, nw_network_params, nw_analysis_params, circ_M,
      circ_M_full, circ_ana_M, circ_last>>

vars ==
    <<varsRate, varsFR, varsTF, varsEx, varsNet, varsSens, varsLin, varsMC,
      varsObj>>

\* What a step of one part leaves alone: the variables of the other parts.
NotRate ==
    <<varsFR, varsTF, varsEx, varsNet, varsSens, varsLin, varsMC,
      varsObj>>

NotFR ==
    <<varsRate, varsTF, varsEx, varsNet, varsSens, varsLin, varsMC,
      varsObj>>

NotTF ==
    <<varsRate, varsFR, varsEx, varsNet, varsSens, varsLin, varsMC,
      varsObj>>

NotEx ==
    <<varsRate, varsFR, varsTF, varsNet, varsSens, varsLin, varsMC,
      varsObj>>

NotNet ==
    <<varsRate, varsFR, varsTF, varsEx, varsSens, varsLin, varsMC,
      varsObj>>

NotSens ==
    <<varsRate, varsFR, varsTF, varsEx, varsNet, varsLin, varsMC,
      varsObj>>

NotLin ==
    <<varsRate, varsFR, varsTF, varsEx, varsNet, varsSens, varsMC,
      varsObj>>

NotMC ==
    <<varsRate, varsFR, varsTF, varsEx, varsNet, varsSens, varsLin,
      varsObj>>

NotObj ==
    <<varsRate, varsFR, varsTF, varsEx, varsNet, varsSens, varsLin, varsMC>>

----------------------------------------------------------------------------
\* Bounds of the model.

\* V_th_rel, V_0_rel and the elements of mu range over 0..MaxV (mV).
MaxV == 2
\* mu has 1..MaxLen elements.
MaxLen == 2

\* Fixed-point resolution: Scale units per 1.
Scale == 10 * 10 * 10

Voltages == 0..MaxV
Sigmas == {1, 2}
TauMs == {10}
TauRs == {0, 2}

----------------------------------------------------------------------------
\* Small helpers.

Abs(x) == IF x < 0 THEN -x ELSE x

Min2(x, y) == IF x <= y THEN x ELSE y

Max2(x, y) == IF x >= y THEN x ELSE y

RECURSIVE SeqMin(_)
SeqMin(s) == IF Len(s) = 1 THEN s[1] ELSE Min2(s[1], SeqMin(Tail(s)))

RECURSIVE SeqMax(_)
SeqMax(s) == IF Len(s) = 1 THEN s[1] ELSE Max2(s[1], SeqMax(Tail(s)))

AbsSeq(s) == [i \in 1..Len(s) |-> Abs(s[i])]

\* Fixed-point product, floor(x * y / Scale), computed without forming x * y.
Mul(x, y) == x * (y \div Scale) + (x * (y % Scale)) \div Scale

\* s[m] of numpy: the elements of s where m is true, in order.
RECURSIVE Select(_, _)
Select(s, m) ==
    IF Len(s) = 0 THEN <<>>
    ELSE (IF m[1] THEN <<s[1]>> ELSE <<>>) \o Select(Tail(s), Tail(m))

\* The indices where m is true, in order.
Where(m) == Select([i \in 1..Len(m) |-> i], m)

----------------------------------------------------------------------------
\* scipy.special on the grid y = k/2, k = 0..8, in units of 1/Scale.

\* erfcx(k/2)
ErfcxTab == <<1000, 616, 428, 322, 255, 211, 179, 155, 137>>
erfcx(k) == ErfcxTab[k + 1]

\* integral of erfcx from 0 to k/2
ErfcxIntTab == <<0, 391, 647, 832, 975, 1091, 1188, 1272, 1344>>

\* dawsn(k/2)
DawsnTab == <<0, 424, 538, 428, 301, 223, 178, 150, 129>>
dawsn(k) == IF k < 0 THEN -DawsnTab[1 - k] ELSE DawsnTab[k + 1]

\* exp(n/4), n = -36..36; the smallest values round to 0 (underflow).
ExpTab == <<0, 0, 0, 0, 0, 0, 1, 1, 1, 1, 2, 2, 2, 3, 4, 5, 7, 9, 11, 14, 18,
            24, 30, 39, 50, 64, 82, 105, 135, 174, 223, 287, 368, 472, 607,
            779, 1000, 1284, 1649, 2117, 2718, 3490, 4482, 5755, 7389, 9488,
            12182, 15643, 20086, 25790, 33115, 42521, 54598, 70105, 90017,
            115584, 148413, 190566, 244692, 314191, 403429, 518013, 665142,
            854059, 1096633, 1408105, 1808042, 2321572, 2980958, 3827626,
            4914769, 6310688, 8103084>>
\* np.exp(y1**2 - y2**2) for the keys k1, k2 of y1, y2
ExpSqDiff(k1, k2) == ExpTab[(k1 * k1 - k2 * k2) + 37]

\* np.sqrt(np.pi), np.sqrt(np.pi / 2)
SqrtPi == 1772
SqrtHalfPi == 1253

----------------------------------------------------------------------------
\* Quadrature (aux_calcs.py).

\* Program constants of the order search (params of nu_0 / _nu0_dPhi).
start_order == 10
maxiter == 10
\* epsrel = 1e-12, in the unit of rel_error (1e-13)
epsrel == 10

\* The key 2*y of y = (V - m)/s.  V - m is an integer and s is 1 or 2, so
\* the division is exact.
YKey(V, m, s) == (2 * (V - m)) \div s

\* a = min(np.abs(y_th).min(), np.abs(y_r).min())
RangeA(yth, yr) == Min2(SeqMin(AbsSeq(yth)), SeqMin(AbsSeq(yr)))

\* b = max(np.abs(y_th).max(), np.abs(y_r).max())
RangeB(yth, yr) == Max2(SeqMax(AbsSeq(yth)), SeqMax(AbsSeq(yr)))

\* quad(erfcx, lo, hi, epsabs=0, epsrel=epsrel)[0]: the reference value of
\* the integral, 0 exactly when lo = hi.
quad_erfcx(lo, hi) == ErfcxIntTab[hi + 1] - ErfcxIntTab[lo + 1]

\* The assertion of _erfcx_integral: np.all(a >= 0) and np.all(b >= 0).
erfcx_integral_assert(lo, hi) ==
    /\ \A i \in 1..Len(lo) : lo[i] >= 0
    /\ \A i \in 1..Len(hi) : hi[i] >= 0

\* _erfcx_integral(lo, hi, order) for one pair of bounds: the signed value
\* (hi-lo) * sum(w * erfcx(...)) / 2.  It is 0 exactly when lo = hi; what
\* the order changes lies below the fixed-point resolution and is carried
\* by the deviation the order search compares with epsrel.
erfcx_integral(lo, hi, ord) == ErfcxIntTab[hi + 1] - ErfcxIntTab[lo + 1]

\* The relative deviations |I_gl/I_quad - 1| a Gauss-Legendre estimate can
\* show at some order, in units of 1e-13.
GLDeviations == {0, epsrel, 2 * epsrel}

\* rel_error = np.abs(I_gl/I_quad - 1): 0/0 is nan.
RelError(I_gl, I_quad, dev) ==
    IF I_quad = 0 /\ I_gl = 0
    THEN [nan |-> TRUE, v |-> 0]
    ELSE [nan |-> FALSE, v |-> dev]

\* rel_error < epsrel; every comparison with nan is False.
Converged(re, tol) == ~re.nan /\ re.v < tol

\* order *= 2
NextOrder_add(ord) == ord + start_order
NextOrder(ord) == ord * 2

----------------------------------------------------------------------------
\* Branch masks (nu_0 lines 121-123, _nu0_dPhi lines 308-310).

mask_exc(yth, yr) == [i \in 1..Len(yth) |-> yth[i] < 0]

mask_inh(yth, yr) == [i \in 1..Len(yth) |-> 0 < yr[i]]

mask_interm_strict(yth, yr) ==
    [i \in 1..Len(yth) |-> (yr[i] < 0) /\ (0 <= yth[i])]
mask_interm(yth, yr) ==
    [i \in 1..Len(yth) |-> (yr[i] <= 0) /\ (0 <= yth[i])]

----------------------------------------------------------------------------
\* The three branch helpers, on the sub-arrays selected by a mask.  Each
\* returns [ok, called, call, out]: whether its assertions hold, whether it
\* reached _erfcx_integral, the bounds and order it passed, and the rates.

Rate(n, d) == [num |-> n, den |-> d]

\* np.zeros
ZeroRate == Rate(0, 1)

\* _siegert_exc: 1 / (t_ref + tau_m * sqrt(pi) * Int)
siegert_exc_swapped(yth, yr, tau_m, t_ref, ord) ==
    LET lo == AbsSeq(yr)
        hi == AbsSeq(yth)
        pre == \A i \in 1..Len(yth) : yth[i] < 0
        ok == pre /\ erfcx_integral_assert(lo, hi)
    IN  [ok |-> ok, called |-> pre,
         call |-> [helper |-> "exc", lo |-> lo, hi |-> hi, order |-> ord],
         out |-> IF ok
                 THEN [i \in 1..Len(yth) |->
                        Rate(Scale, t_ref * Scale + tau_m
                             * Mul(SqrtPi, erfcx_integral(lo[i], hi[i], ord)))]
                 ELSE <<>>]
siegert_exc(yth, yr, tau_m, t_ref, ord) ==
    LET lo == AbsSeq(yth)
        hi == AbsSeq(yr)
        pre == \A i \in 1..Len(yth) : yth[i] < 0
        ok == pre /\ erfcx_integral_assert(lo, hi)
    IN  [ok |-> ok, called |-> pre,
         call |-> [helper |-> "exc", lo |-> lo, hi |-> hi, order |-> ord],
         out |-> IF ok
                 THEN [i \in 1..Len(yth) |->
                        Rate(Scale, t_ref * Scale + tau_m
                             * Mul(SqrtPi, erfcx_integral(lo[i], hi[i], ord)))]
                 ELSE <<>>]

\* _siegert_inh: e / (e * t_ref + tau_m * sqrt(pi) * Int), e = exp(-y_th**2),
\* Int = 2 dawsn(y_th) - 2 exp(y_r**2 - y_th**2) dawsn(y_r)
\*       - e * _erfcx_integral(y_r, y_th)
siegert_inh_expSign(yth, yr, tau_m, t_ref, ord) ==
    LET lo == yr
        hi == yth
        pre == \A i \in 1..Len(yr) : 0 < yr[i]
        ok == pre /\ erfcx_integral_assert(lo, hi)
        e(i) == ExpSqDiff(0, yth[i])
        Integ(i) == 2 * dawsn(yth[i])
                  - 2 * Mul(ExpSqDiff(yth[i], yr[i]), dawsn(yr[i]))
                  - Mul(e(i), erfcx_integral(lo[i], hi[i], ord))
    IN  [ok |-> ok, called |-> pre,
         call |-> [helper |-> "inh", lo |-> lo, hi |-> hi, order |-> ord],
         out |-> IF ok
                 THEN [i \in 1..Len(yth) |->
                        Rate(e(i), e(i) * t_ref
                                   + tau_m * Mul(SqrtPi, Integ(i)))]
                 ELSE <<>>]
siegert_inh(yth, yr, tau_m, t_ref, ord) ==
    LET lo == yr
        hi == yth
        pre == \A i \in 1..Len(yr) : 0 < yr[i]
        ok == pre /\ erfcx_integral_assert(lo, hi)
        e(i) == ExpSqDiff(0, yth[i])
        Integ(i) == 2 * dawsn(yth[i])
                  - 2 * Mul(ExpSqDiff(yr[i], yth[i]), dawsn(yr[i]))
                  - Mul(e(i), erfcx_integral(lo[i], hi[i], ord))
    IN  [ok |-> ok, called |-> pre,
         call |-> [helper |-> "inh", lo |-> lo, hi |-> hi, order |-> ord],
         out |-> IF ok
                 THEN [i \in 1..Len(yth) |->
                        Rate(e(i), e(i) * t_ref
                                   + tau_m * Mul(SqrtPi, Integ(i)))]
                 ELSE <<>>]

\* _siegert_interm: e / (e * t_ref + tau_m * sqrt(pi) * Int),
\* Int = 2 dawsn(y_th) + e * _erfcx_integral(y_th, |y_r|)
siegert_interm_noabs(yth, yr, tau_m, t_ref, ord) ==
    LET lo == yth
        hi == yr
        pre == \A i \in 1..Len(yr) : (yr[i] <= 0) /\ (0 <= yth[i])
        ok == pre /\ erfcx_integral_assert(lo, hi)
    IN  [ok |-> ok, called |-> pre,
         call |-> [helper |-> "interm", lo |-> lo, hi |-> hi, order |-> ord],
         out |-> IF ok THEN [i \in 1..Len(yth) |-> ZeroRate] ELSE <<>>]
siegert_interm(yth, yr, tau_m, t_ref, ord) ==
    LET lo == yth
        hi == AbsSeq(yr)
        pre == \A i \in 1..Len(yr) : (yr[i] <= 0) /\ (0 <= yth[i])
        ok == pre /\ erfcx_integral_assert(lo, hi)
        e(i) == ExpSqDiff(0, yth[i])
        Integ(i) == 2 * dawsn(yth[i])
                  + Mul(e(i), erfcx_integral(lo[i], hi[i], ord))
    IN  [ok |-> ok, called |-> pre,
         call |-> [helper |-> "interm", lo |-> lo, hi |-> hi, order |-> ord],
         out |-> IF ok
                 THEN [i \in 1..Len(yth) |->
                        Rate(e(i), e(i) * t_ref
                                   + tau_m * Mul(SqrtPi, Integ(i)))]
                 ELSE <<>>]

----------------------------------------------------------------------------
\* nu_0 (aux_calcs.py) and _nu0_dPhi (lif/exp.py).

\* params = {'tau_m': tau_m, 't_ref': tau_r, 'gl_order': gl_order}
BranchParams_startOrder(tau_m, tau_r, glo) ==
    [tau_m |-> tau_m, t_ref |-> tau_r, gl_order |-> start_order]
BranchParams(tau_m, tau_r, glo) ==
    [tau_m |-> tau_m, t_ref |-> tau_r, gl_order |-> glo]

\* Position of element i among the elements selected by m.
Rank(m, i) == Cardinality({j \in 1..i : m[j]})

\* arr[m] = vals
Scatter(arr, m, vals) ==
    [i \in 1..Len(arr) |-> IF m[i] THEN vals[Rank(m, i)] ELSE arr[i]]

\* Record which branch wrote the elements selected by m.
Mark(w, m, name) ==
    [i \in 1..Len(w) |-> IF m[i] THEN Append(w[i], name) ELSE w[i]]

\* "calculate siegert": the three masked assignments in the order exc, inh,
\* interm, given the masks m and what the helpers return on the selected
\* sub-arrays.  A failed assertion in a helper ends the evaluation there.
MaskedAssignments(n, m, rE, rI, rM) ==
    LET nu0 == [i \in 1..n |-> ZeroRate]
        w0 == [i \in 1..n |-> <<>>]
        cE == IF rE.called THEN <<rE.call>> ELSE <<>>
        cI == IF rI.called THEN <<rI.call>> ELSE <<>>
        cM == IF rM.called THEN <<rM.call>> ELSE <<>>
    IN  IF ~rE.ok
        THEN [ok |-> FALSE, mask |-> m, nu |-> nu0, calls |-> cE,
              written |-> w0]
        ELSE IF ~rI.ok
        THEN [ok |-> FALSE, mask |-> m,
              nu |-> Scatter(nu0, m.exc, rE.out),
              calls |-> cE \o cI,
              written |-> Mark(w0, m.exc, "exc")]
        ELSE IF ~rM.ok
        THEN [ok |-> FALSE, mask |-> m,
              nu |-> Scatter(Scatter(nu0, m.exc, rE.out), m.inh, rI.out),
              calls |-> cE \o cI \o cM,
              written |-> Mark(Mark(w0, m.exc, "exc"), m.inh, "inh")]
        ELSE [ok |-> TRUE, mask |-> m,
              nu |-> Scatter(Scatter(Scatter(nu0, m.exc, rE.out),
                                     m.inh, rI.out), m.interm, rM.out),
              calls |-> cE \o cI \o cM,
              written |-> Mark(Mark(Mark(w0, m.exc, "exc"), m.inh, "inh"),
                               m.interm, "interm")]

\* The helper calls on the sub-arrays the masks m select.
CallHelpers(yth, yr, p, m) ==
    MaskedAssignments(Len(yth), m,
        siegert_exc(Select(yth, m.exc), Select(yr, m.exc),
                    p.tau_m, p.t_ref, p.gl_order),
        siegert_inh(Select(yth, m.inh), Select(yr, m.inh),
                    p.tau_m, p.t_ref, p.gl_order),
        siegert_interm(Select(yth, m.interm), Select(yr, m.interm),
                       p.tau_m, p.t_ref, p.gl_order))

\* "separate domains" and "calculate siegert".
SiegertBranches(yth, yr, p) ==
    CallHelpers(yth, yr, p, [exc |-> mask_exc(yth, yr),
                             inh |-> mask_inh(yth, yr),
                             interm |-> mask_interm(yth, yr)])

\* _Phi_neg(s), s = sqrt(2) * y: sqrt(pi/2) * erfcx(|s| / sqrt(2))
Phi_neg(k) == Mul(SqrtHalfPi, erfcx(Abs(k)))

\* _Phi_pos(s): sqrt(pi/2) * (2 - exp(-s**2 / 2) * erfcx(s / sqrt(2)))
Phi_pos(k) == Mul(SqrtHalfPi, 2 * Scale - Mul(ExpSqDiff(0, k), erfcx(k)))

\* "calculate rescaled Phi": the assertions of _Phi_neg (s <= 0) and
\* _Phi_pos (s >= 0) on the masked arguments.
PhiAsserts(yth, yr, m) ==
    \A i \in 1..Len(yth) :
        /\ m.exc[i] => (yth[i] <= 0 /\ yr[i] <= 0)
        /\ m.inh[i] => (yth[i] >= 0 /\ yr[i] >= 0)
        /\ m.interm[i] => (yth[i] >= 0 /\ yr[i] <= 0)

\* Phi_th after the three masked assignments (a later one overwrites).
Phi_th(yth, yr, m) ==
    [i \in 1..Len(yth) |->
        IF m.interm[i] THEN Phi_pos(yth[i])
        ELSE IF m.inh[i] THEN Phi_pos(yth[i])
        ELSE IF m.exc[i] THEN Phi_neg(yth[i])
        ELSE 0]

\* Phi_r after the three masked assignments and the exponential factors.
Phi_r(yth, yr, m) ==
    [i \in 1..Len(yth) |->
        IF m.interm[i] THEN Mul(Phi_neg(yr[i]), ExpSqDiff(0, yth[i]))
        ELSE IF m.inh[i] THEN Mul(Phi_pos(yr[i]), ExpSqDiff(yr[i], yth[i]))
        ELSE IF m.exc[i] THEN Phi_neg(yr[i])
        ELSE 0]

NoError == [type |-> "none", rel_error |-> [nan |-> FALSE, v |-> 0]]

NoMask == [exc |-> <<>>, inh |-> <<>>, interm |-> <<>>]

InitRate ==
    /\ pc = "idle"
    /\ fn = "none"
    /\ args = <<>>
    /\ y_th = <<>>
    /\ y_r = <<>>
    /\ a = 0
    /\ b = 0
    /\ order = 0
    /\ iter = 0
    /\ rel_error = [nan |-> FALSE, v |-> 0]
    /\ gl_order = 0
    /\ mask = NoMask
    /\ nu = <<>>
    /\ calls = <<>>
    /\ written = <<>>
    /\ result = <<>>
    /\ error = NoError
    /\ tried = <<>>
    /\ prior_failed = TRUE
    /\ order_calls = 0

\* Entry of f up to the call of _get_erfcx_integral_gl_order and that
\* function's lines before its loop: y_th, y_r, the range [a, b], the
\* start order.
Enter(f) ==
    /\ pc = "idle"
    /\ \E Vth \in Voltages, V0 \in Voltages, s \in Sigmas,
          tm \in TauMs, tr \in TauRs, n \in 1..MaxLen :
         \E m \in [1..n -> Voltages] :
            LET yth == [i \in 1..n |-> YKey(Vth, m[i], s)]
                yr == [i \in 1..n |-> YKey(V0, m[i], s)]
            IN  /\ fn' = f
                /\ args' = [V_th_rel |-> Vth, V_0_rel |-> V0, mu |-> m,
                            sigma |-> s, tau_m |-> tm, tau_r |-> tr]
                /\ y_th' = yth
                /\ y_r' = yr
                /\ a' = RangeA(yth, yr)
                /\ b' = RangeB(yth, yr)
    /\ order' = start_order
    /\ iter' = 0
    /\ order_calls' = order_calls + 1
    /\ pc' = "order"
    /\ UNCHANGED <<rel_error, gl_order, mask, nu, calls, written, result,
                   error, tried, prior_failed>>

Call_nu_0 == Enter("nu_0")

Call_nu0_dPhi == Enter("_nu0_dPhi")

\* One pass of the loop of _get_erfcx_integral_gl_order: evaluate at the
\* current order, return it if the relative error is below epsrel, else
\* double it.
OrderPass ==
    /\ pc = "order"
    /\ iter < maxiter
    /\ \E dev \in GLDeviations :
         LET I_quad == quad_erfcx(a, b)
             I_gl == erfcx_integral(a, b, order)
             re == RelError(I_gl, I_quad, dev)
         IN  /\ rel_error' = re
             /\ IF Converged(re, epsrel)
                THEN /\ gl_order' = order
                     /\ order' = order
                     /\ pc' = "domains"
                ELSE /\ gl_order' = gl_order
                     /\ order' = NextOrder(order)
                     /\ pc' = "order"
    /\ iter' = iter + 1
    /\ tried' = Append(tried, order)
    /\ prior_failed' = (prior_failed
                        /\ (iter = 0 \/ rel_error.nan \/ rel_error.v >= epsrel))
    /\ UNCHANGED <<fn, args, y_th, y_r, a, b, mask, nu, calls, written,
                   result, error, order_calls>>

\* The loop ran maxiter times without returning: raise RuntimeError with
\* the last relative error in its message.
OrderExhausted_returns ==
    /\ pc = "order"
    /\ iter >= maxiter
    /\ gl_order' = order
    /\ pc' = "domains"
    /\ UNCHANGED <<fn, args, y_th, y_r, a, b, order, iter, rel_error, mask,
                   nu, calls, written, result, error, tried, prior_failed,
                   order_calls>>
OrderExhausted ==
    /\ pc = "order"
    /\ iter >= maxiter
    /\ error' = [type |-> "RuntimeError", rel_error |-> rel_error]
    /\ pc' = "error"
    /\ UNCHANGED <<fn, args, y_th, y_r, a, b, order, iter, rel_error,
                   gl_order, mask, nu, calls, written, result, tried,
                   prior_failed, order_calls>>

\* nu_0 after the order search: masks, branch helpers, return nu.
Evaluate_nu_0 ==
    /\ pc = "domains"
    /\ fn = "nu_0"
    /\ \E r \in {SiegertBranches(y_th, y_r,
                    BranchParams(args.tau_m, args.tau_r, gl_order))} :
           /\ mask' = r.mask
           /\ nu' = r.nu
           /\ calls' = r.calls
           /\ written' = r.written
           /\ IF r.ok
              THEN /\ result' = r.nu
                   /\ error' = error
                   /\ pc' = "done"
              ELSE /\ result' = result
                   /\ error' = [type |-> "AssertionError",
                                rel_error |-> rel_error]
                   /\ pc' = "error"
    /\ UNCHANGED <<fn, args, y_th, y_r, a, b, order, iter, rel_error,
                   gl_order, tried, prior_failed, order_calls>>

\* _nu0_dPhi after the order search: masks, branch helpers, rescaled Phi,
\* return nu * (Phi_th - Phi_r).
Evaluate_nu0_dPhi ==
    /\ pc = "domains"
    /\ fn = "_nu0_dPhi"
    /\ \E r \in {SiegertBranches(y_th, y_r,
                    BranchParams(args.tau_m, args.tau_r, gl_order))} :
         LET ok == r.ok /\ PhiAsserts(y_th, y_r, r.mask)
             Pth == Phi_th(y_th, y_r, r.mask)
             Pr == Phi_r(y_th, y_r, r.mask)
         IN
           /\ mask' = r.mask
           /\ nu' = r.nu
           /\ calls' = r.calls
           /\ written' = r.written
           /\ IF ok
              THEN /\ result' = [i \in 1..Len(y_th) |->
                                   Rate(Mul(r.nu[i].num, Pth[i] - Pr[i]),
                                        r.nu[i].den)]
                   /\ error' = error
                   /\ pc' = "done"
              ELSE /\ result' = result
                   /\ error' = [type |-> "AssertionError",
                                rel_error |-> rel_error]
                   /\ pc' = "error"
    /\ UNCHANGED <<fn, args, y_th, y_r, a, b, order, iter, rel_error,
                   gl_order, tried, prior_failed, order_calls>>

\* The call is over (returned or raised); the next call starts afresh.
Return ==
    /\ pc \in {"done", "error"}
    /\ pc' = "idle"
    /\ fn' = "none"
    /\ args' = <<>>
    /\ y_th' = <<>>
    /\ y_r' = <<>>
    /\ a' = 0
    /\ b' = 0
    /\ order' = 0
    /\ iter' = 0
    /\ rel_error' = [nan |-> FALSE, v |-> 0]
    /\ gl_order' = 0
    /\ mask' = NoMask
    /\ nu' = <<>>
    /\ calls' = <<>>
    /\ written' = <<>>
    /\ result' = <<>>
    /\ error' = NoError
    /\ tried' = <<>>
    /\ prior_failed' = TRUE
    /\ order_calls' = 0

----------------------------------------------------------------------------
\* firing_rates (meanfield_calcs.py): the fixed-point iteration
\*     while eps >= 1e-5: y[1] = y[0] + (rate(y[0]) - y[0]) * dt
\* Rates are integers in units of 1e-5 Hz.

\* Largest external drive, in Hz.
MaxDrive == 3
\* Largest number of populations.
MaxDim == 2

\* 1 Hz in rate units.
Hz == 100 * 1000

\* dt = 0.05 = 1/InvDt
InvDt == 20
\* The tolerance 1e-5 Hz of the loop test, in rate units.
FRTol == 1
\* eps = 1.0 before the loop, in rate units.
EpsStart == Hz

\* The rate a population can reach at most, in rate units.
RateCap == 30 * Hz

\* Strength of the recurrent inhibition of a population onto itself: the
\* decrease of its stationary rate per unit of its own rate.
Couplings == {0, 10, 50}

Populations == [drive : {d * Hz : d \in 1..MaxDrive}, coupling : Couplings]

\* Quotient rounded towards zero.
TruncDiv(x, d) == IF x >= 0 THEN x \div d ELSE -((-x) \div d)

\* rate_function(mu, sigma) at the input that the rates nu produce
\* (get_rate_difference: mu and sigma from nu, then nu0_fb433): for one
\* population, a rate that falls linearly with the population's own rate
\* and stays within [0, RateCap].
rate_function(par, r) ==
    Max2(0, Min2(RateCap, par.drive - par.coupling * r))

\* get_rate_difference(nu) = -nu + new_nu
get_rate_difference(par, r) ==
    [i \in 1..Len(r) |-> rate_function(par[i], r[i]) - r[i]]

\* max(np.abs(epsilon))
MaxAbs(s) == SeqMax(AbsSeq(s))

\* The loop test: eps >= 1e-5.
LoopContinues(e) == e >= FRTol

InitFR ==
    /\ fr_pc = "idle"
    /\ fr_par = <<>>
    /\ y0 = <<>>
    /\ y1 = <<>>
    /\ eps = 0

\* Entry of firing_rates: y = zeros((2, dimension)), eps = 1.0.
FR_Call ==
    /\ fr_pc = "idle"
    /\ \E n \in 1..MaxDim : \E par \in [1..n -> Populations] :
          /\ fr_par' = par
          /\ y0' = [i \in 1..n |-> 0]
          /\ y1' = [i \in 1..n |-> 0]
    /\ eps' = EpsStart
    /\ fr_pc' = "loop"

\* One pass of the while loop.
FR_Iterate ==
    /\ fr_pc = "loop"
    /\ LoopContinues(eps)
    /\ \E delta_y \in {get_rate_difference(fr_par, y0)} :
         \E new \in {[i \in 1..Len(y0) |->
                        y0[i] + TruncDiv(delta_y[i], InvDt)]} :
            /\ y1' = new
            /\ eps' = MaxAbs([i \in 1..Len(y0) |-> new[i] - y0[i]])
            /\ y0' = new
    /\ UNCHANGED <<fr_pc, fr_par>>

\* The loop test failed: return y[1].
FR_Exit ==
    /\ fr_pc = "loop"
    /\ ~LoopContinues(eps)
    /\ fr_pc' = "done"
    /\ UNCHANGED <<fr_par, y0, y1, eps>>

\* The call is over; the next call starts afresh.
FR_Return ==
    /\ fr_pc = "done"
    /\ fr_pc' = "idle"
    /\ fr_par' = <<>>
    /\ y0' = <<>>
    /\ y1' = <<>>
    /\ eps' = 0

----------------------------------------------------------------------------
\* The transfer function by the shift method: _transfer_function_shift
\* (lif/exp.py, a vector of frequencies and populations) and
\* transfer_function_1p_shift (meanfield_calcs.py, one frequency).
\* Frequencies are integers in units of 1e-16; voltages are in units of
\* 1/Scale mV.

\* Largest frequency of the grid, in units of 1e-16.
MaxOmega == 25

\* The tolerance 1e-15 of the near-zero test.
OmegaTol == 10

\* alpha / 2 with alpha = sqrt(2) * |zetac(0.5) + 1|, times Scale.
AlphaHalf == 1033

\* The time constants of a call with k = sqrt(tau_s / tau_m), times Scale.
TFTaus ==
    {[tau_m |-> 8, tau_s |-> 2, sqrt_ratio |-> 500],
     [tau_m |-> 8, tau_s |-> 8, sqrt_ratio |-> 1000]}

\* sqrt(tau_s / tau_m), times Scale.
SqrtTauRatios == {t.sqrt_ratio : t \in TFTaus}

\* tau_r as the caller passes it: an array of 0..MaxLen+1 equal entries
\* (one entry stands for a scalar as well).
TauRArrays == {[i \in 1..n |-> 2] : n \in 0..(MaxLen + 1)}

\* mu of a vectorised call: one entry per population, 1..MaxLen of them.
MuArrays == {[i \in 1..n |-> 0] : n \in 1..MaxLen}

OmegaGrid ==
    {-MaxOmega, -OmegaTol, -(OmegaTol - 1), 0,
     OmegaTol - 1, OmegaTol, MaxOmega}

SeqsUpTo(S, n) == UNION {[1..k -> S] : k \in 1..n}

\* V + sigma * alpha / 2. * np.sqrt(tau_s / tau_m)
Shifted(V, sigma, sq) == V * Scale + Mul(Mul(sigma * Scale, AlphaHalf), sq)

\* _similar_array(x, array) on 1-d shapes: x is kept if the lengths agree,
\* broadcast if x has one element, and otherwise RuntimeError is raised.
similar_array_ok_shorter(lx, L) == lx <= L
similar_array_ok(lx, L) == lx = L \/ lx = 1

\* The length of max_arg in _equalize_shape: the first argument, replaced
\* by every later argument that is strictly longer.
RECURSIVE MaxArgLen(_, _)
MaxArgLen(lens, cur) ==
    IF lens = <<>> THEN cur
    ELSE MaxArgLen(Tail(lens), IF Head(lens) > cur THEN Head(lens) ELSE cur)

\* _equalize_shape(*args) on the lengths of its arguments: the common
\* length, and whether every _similar_array call returned.
_equalize_shape(lens) ==
    LET L == MaxArgLen(Tail(lens), Head(lens))
    IN  [ok |-> \A i \in 1..Len(lens) : similar_array_ok(lens[i], L),
         len |-> L]

\* The lengths of (mu, sigma, tau_m, tau_r, tau_s, V_th_rel, V_0_rel).
ArgLens(mu, tau_r) == <<Len(mu), 1, 1, Len(tau_r), 1, 1, 1>>

\* omegas < 1e-15 (Taylor method)
zero_omega_mask_taylor(omegas) ==
    [i \in 1..Len(omegas) |-> omegas[i] < OmegaTol]

\* np.abs(omegas) < 1e-15
zero_omega_mask_noabs(omegas) ==
    [i \in 1..Len(omegas) |-> omegas[i] < OmegaTol]
zero_omega_mask(omegas) ==
    [i \in 1..Len(omegas) |-> Abs(omegas[i]) < OmegaTol]

\* np.invert(zero_omega_mask)
regular_mask(zm) == [i \in 1..Len(zm) |-> ~zm[i]]

\* np.any(mask)
AnyTrue(m) == \E i \in 1..Len(m) : m[i]

\* np.zeros((len(omegas), len(mu)), dtype=complex)
NoFactor == [applied |-> FALSE, omega |-> 0, tau_s |-> 0]

ZeroRows(n, cols) ==
    [i \in 1..n |-> [branch |-> "zeros", writes |-> 0, cols |-> cols,
                     V_th |-> 0, V_0 |-> 0, omega |-> 0,
                     filtered |-> FALSE,
                     factor |-> [j \in 1..cols |-> NoFactor]]]

\* result[m] = value: the rows selected by m are overwritten.
AssignRows(res, m, branch, Vth, V0, omegas) ==
    [i \in 1..Len(res) |->
        IF m[i]
        THEN [res[i] EXCEPT !.branch = branch,
                            !.writes = res[i].writes + 1,
                            !.V_th = Vth, !.V_0 = V0,
                            !.omega = omegas[i]]
        ELSE res[i]]

\* result *= _synaptic_filter(omegas, tau_s): the entry of frequency i and
\* population j is multiplied by 1 / (1 + 1j * omegas[i] * tau_s[j]).
synaptic_filter_regularOnly(res, omegas, tau_s) ==
    [i \in 1..Len(res) |->
        IF res[i].branch = "dc" THEN res[i]
        ELSE [res[i] EXCEPT !.filtered = TRUE,
                 !.factor = [j \in 1..res[i].cols |->
                               [applied |-> TRUE, omega |-> omegas[i],
                                tau_s |-> tau_s]]]]
_synaptic_filter(res, omegas, tau_s) ==
    [i \in 1..Len(res) |->
        [res[i] EXCEPT !.filtered = TRUE,
            !.factor = [j \in 1..res[i].cols |->
                          [applied |-> TRUE, omega |-> omegas[i],
                           tau_s |-> tau_s]]]]

\* The set omegas[mask].
Masked(omegas, m) == {omegas[i] : i \in {j \in 1..Len(omegas) : m[j]}}

\* The body of _transfer_function_shift after the masks are formed.
ShiftRows(omegas, cols, Vth, V0, zm, rm, filter, tau_s) ==
    LET r0 == ZeroRows(Len(omegas), cols)
        r1 == IF AnyTrue(zm)
              THEN AssignRows(r0, zm, "dc", Vth, V0, omegas)
              ELSE r0
        r2 == IF AnyTrue(rm)
              THEN AssignRows(r1, rm, "general", Vth, V0, omegas)
              ELSE r1
    IN  [rows    |-> IF filter THEN _synaptic_filter(r2, omegas, tau_s)
                     ELSE r2,
         general |-> IF AnyTrue(rm) THEN Masked(omegas, rm) ELSE {}]

InitTF ==
    /\ tf_pc = "idle"
    /\ tf_fn = "none"
    /\ tf_args = <<>>
    /\ tf_result = <<>>
    /\ tf_general = {}
    /\ tf_error = "none"

\* The arguments of a vectorised call.
TFArgs(omegas, mu, tau_r, sigma, t, filter) ==
    [omegas |-> omegas, mu |-> mu, tau_r |-> tau_r, sigma |-> sigma,
     tau_m |-> t.tau_m, tau_s |-> t.tau_s, sqrt_ratio |-> t.sqrt_ratio,
     V_th_rel |-> MaxV, V_0_rel |-> 0, synaptic_filter |-> filter]

\* A vectorised call, of the Taylor method or of the shift method, with the
\* threshold and reset Vth, V0 its branches use: _equalize_shape first; if it raises,
\* no result exists, else the branch split and the filter follow.
VectorCall(f, ar, taylor, Vth, V0) ==
    /\ tf_fn' = f
    /\ tf_args' = ar
    /\ \E eq \in {_equalize_shape(ArgLens(ar.mu, ar.tau_r))} :
          IF ~eq.ok
          THEN /\ tf_pc' = "error"
               /\ tf_error' = "RuntimeError"
               /\ tf_result' = <<>>
               /\ tf_general' = {}
          ELSE \E zm \in {IF taylor
                            THEN zero_omega_mask_taylor(ar.omegas)
                            ELSE zero_omega_mask(ar.omegas)} :
               \E r \in {ShiftRows(ar.omegas, eq.len, Vth, V0, zm,
                                   regular_mask(zm), ar.synaptic_filter,
                                   ar.tau_s)} :
                  /\ tf_pc' = "done"
                  /\ tf_error' = "none"
                  /\ tf_result' = r.rows
                  /\ tf_general' = r.general

\* _transfer_function_shift(mu, sigma, tau_m, tau_s, tau_r, V_th_rel,
\*                          V_0_rel, omegas, synaptic_filter)
_transfer_function_shift ==
    /\ tf_pc = "idle"
    /\ \E omegas \in SeqsUpTo(OmegaGrid, MaxLen),
          mu \in MuArrays, tau_r \in TauRArrays,
          sigma \in Sigmas, t \in TFTaus, filter \in BOOLEAN :
          VectorCall("_transfer_function_shift",
                     TFArgs(omegas, mu, tau_r, sigma, t, filter),
                     FALSE,
                     Shifted(MaxV, sigma, t.sqrt_ratio),
                     Shifted(0, sigma, t.sqrt_ratio))

\* _transfer_function_taylor(mu, sigma, tau_m, tau_s, tau_r, V_th_rel,
\*                           V_0_rel, omegas, synaptic_filter): the same
\* frame; its mask is omegas < 1e-15 and both branches use the unshifted
\* threshold and reset.
_transfer_function_taylor ==
    /\ tf_pc = "idle"
    /\ \E omegas \in SeqsUpTo(OmegaGrid, MaxLen),
          mu \in MuArrays, tau_r \in TauRArrays,
          sigma \in Sigmas, t \in TFTaus, filter \in BOOLEAN :
          VectorCall("_transfer_function_taylor",
                     TFArgs(omegas, mu, tau_r, sigma, t, filter),
                     TRUE,
                     MaxV * Scale, 0)

\* One scalar call (meanfield_calcs.py): |omega - 0.| < 1e-15 selects the
\* DC branch; no shapes are equalized and no filter is applied.
ScalarCall(f, omega, mu, sigma, t, Vth, V0) ==
    /\ \E zm \in {zero_omega_mask(<<omega>>)} :
          /\ tf_result' = <<[branch |-> IF zm[1] THEN "dc" ELSE "general",
                             writes |-> 1, cols |-> 1,
                             V_th |-> Vth, V_0 |-> V0,
                             omega |-> omega, filtered |-> FALSE,
                             factor |-> <<NoFactor>>]>>
          /\ tf_general' = IF zm[1] THEN {} ELSE {omega}
    /\ tf_args' = TFArgs(<<omega>>, <<mu>>, <<2>>, sigma, t, FALSE)
    /\ tf_fn' = f
    /\ tf_error' = "none"
    /\ tf_pc' = "done"

\* transfer_function_1p_shift(mu, sigma, tau_m, tau_s, tau_r, V_th_rel,
\*                            V_0_rel, omega): one frequency, no filter.
transfer_function_1p_shift ==
    /\ tf_pc = "idle"
    /\ \E omega \in OmegaGrid, mu \in {0, MaxV},
          sigma \in Sigmas, t \in TFTaus :
          ScalarCall("transfer_function_1p_shift", omega, mu, sigma, t,
                     Shifted(MaxV, sigma, t.sqrt_ratio),
                     Shifted(0, sigma, t.sqrt_ratio))

\* transfer_function_1p_taylor(mu, sigma, tau_m, tau_s, tau_r, V_th_rel,
\*                             V_0_rel, omega)
transfer_function_1p_taylor ==
    /\ tf_pc = "idle"
    /\ \E omega \in OmegaGrid, mu \in {0, MaxV},
          sigma \in Sigmas, t \in TFTaus :
          ScalarCall("transfer_function_1p_taylor", omega, mu, sigma, t,
                     MaxV * Scale, 0)

\* The caller takes the result; the next call starts afresh.
TF_Return ==
    /\ tf_pc \in {"done", "error"}
    /\ tf_pc' = "idle"
    /\ tf_fn' = "none"
    /\ tf_args' = <<>>
    /\ tf_result' = <<>>
    /\ tf_general' = {}
    /\ tf_error' = "none"

----------------------------------------------------------------------------
\* Rates for exponential synapses by the Taylor expansion, nu0_fb433
\* (aux_calcs.py) and _firing_rate_taylor (lif/exp.py), and the
\* input-derivative _derivative_of_firing_rates_wrt_mean_input with its
\* helper _Phi_prime_mu (lif/exp.py).  The rescaled arguments x are in
\* units of 1/Scale; rates are in half Hz.

\* np.sqrt(2.), times Scale.
Sqrt2 == 1414

\* 20.0 / np.sqrt(2.), times Scale.
XThMax == 14142

\* V_th_rel and V_0_rel of these calls, in mV.
ExVth == 3 * 5

\* Mean inputs in mV: above threshold, between reset and threshold, and so
\* far below threshold that x_th passes 20/sqrt(2).
ExMus == {-6, 4, 6, 20}

\* What _delta_firing_rate returns for one element, in half Hz.
ExRates == {0, 4}

\* sqrt(tau_s * tau_m / 2) * alpha * nu0_dPhi for one element, in halves.
ExCorrections == {0, 1, 3}

\* Elements of a sigma array handed to the derivative functions.
ExSigmas == {-1, 0, 1}

\* x = np.sqrt(2.) * (V - mu) / sigma
XOf(V, mu, sigma) ==
    IF Sqrt2 * (V - mu) >= 0 THEN (Sqrt2 * (V - mu)) \div sigma
    ELSE -((Sqrt2 * (mu - V)) \div sigma)

\* x_th > 20.0 / np.sqrt(2.)
OverflowGuard(x) == x > XThMax

\* nu0 * (1 - sqrt(tau_s * tau_m / 2) * alpha * nu0_dPhi), with the
\* correction q in halves: nu0 * (2 - q) / 2.
TaylorCorrected(nu0, q) == (nu0 * (2 - q)) \div 2

\* np.any(result < 0)
AnyNegative_all(res) == \A i \in 1..Len(res) : res[i] < 0
AnyNegative(res) == \E i \in 1..Len(res) : res[i] < 0

\* np.any(sigma == 0)
AnyZero(sig) == \E i \in 1..Len(sig) : sig[i] = 0

\* np.any(sigma < 0)
AnyBelowZero(sig) == \E i \in 1..Len(sig) : sig[i] < 0

InitEx ==
    /\ ex_pc = "idle"
    /\ ex_fn = "none"
    /\ ex_args = <<>>
    /\ ex_result = <<>>
    /\ ex_evaluated = {}
    /\ ex_warned = FALSE
    /\ ex_error = "none"

\* nu0_fb433(tau_m, tau_s, tau_r, V_th_rel, V_0_rel, mu, sigma): one
\* scalar working point.  nu0 is what nu_0 returns and q the size of the
\* correction term built from Phi(x_th) - Phi(x_r).
nu0_fb433 ==
    /\ ex_pc = "idle"
    /\ \E mu \in ExMus, sigma \in Sigmas, nu0 \in ExRates,
          q \in ExCorrections :
          \E x_th \in {XOf(ExVth, mu, sigma)} :
             /\ ex_args' = [V_th_rel |-> ExVth, V_0_rel |-> 0,
                            mu |-> <<mu>>, sigma |-> <<sigma>>,
                            x_th |-> <<x_th>>, nu0 |-> <<nu0>>,
                            q |-> <<q>>]
             /\ IF OverflowGuard(x_th)
                THEN /\ ex_result' = <<nu0>>
                     /\ ex_evaluated' = {"nu_0"}
                ELSE /\ ex_result' = <<TaylorCorrected(nu0, q)>>
                     /\ ex_evaluated' = {"nu_0", "Phi"}
    /\ ex_fn' = "nu0_fb433"
    /\ ex_warned' = FALSE
    /\ ex_error' = "none"
    /\ ex_pc' = "done"

\* _firing_rate_taylor(V_0_rel, V_th_rel, mu, sigma, tau_m, tau_r, tau_s):
\* every element is corrected with the value of _nu0_dPhi; a warning is
\* given if a corrected rate is negative, and the result is returned.
_firing_rate_taylor ==
    /\ ex_pc = "idle"
    /\ \E n \in 1..MaxLen, sigma \in Sigmas :
       \E mu \in [1..n -> ExMus], nu0 \in [1..n -> ExRates],
          q \in [1..n -> ExCorrections] :
          \E res \in {[i \in 1..n |-> TaylorCorrected(nu0[i], q[i])]} :
             /\ ex_args' = [V_th_rel |-> ExVth, V_0_rel |-> 0,
                            mu |-> mu, sigma |-> [i \in 1..n |-> sigma],
                            x_th |-> [i \in 1..n |->
                                        XOf(ExVth, mu[i], sigma)],
                            nu0 |-> nu0, q |-> q]
             /\ ex_result' = res
             /\ ex_warned' = AnyNegative(res)
    /\ ex_evaluated' = {"_delta_firing_rate", "_nu0_dPhi"}
    /\ ex_fn' = "_firing_rate_taylor"
    /\ ex_error' = "none"
    /\ ex_pc' = "done"

\* The checks of _Phi_prime_mu(s, sigma) in their order: the exception it
\* raises, or "none".
Phi_prime_mu_error_noSign(sig) ==
    IF AnyZero(sig) THEN "ZeroDivisionError" ELSE "none"
Phi_prime_mu_error(sig) ==
    IF AnyBelowZero(sig) THEN "ValueError"
    ELSE IF AnyZero(sig) THEN "ZeroDivisionError"
    ELSE "none"

\* A call that ends with the exception err (no result), or with "value".
ExOutcome(f, sig, err, evaluated) ==
    /\ ex_fn' = f
    /\ ex_args' = [sigma |-> sig]
    /\ ex_error' = err
    /\ ex_evaluated' = evaluated
    /\ ex_warned' = FALSE
    /\ ex_result' = IF err = "none" THEN <<"value">> ELSE <<>>
    /\ ex_pc' = IF err = "none" THEN "done" ELSE "error"

\* _derivative_of_firing_rates_wrt_mean_input(V_0_rel, V_th_rel, mu, sigma,
\* tau_m, tau_r, tau_s): the test for sigma == 0 comes first; then the
\* delta rate, its derivative, and _Phi_prime_mu, which may raise.
_derivative_of_firing_rates_wrt_mean_input ==
    /\ ex_pc = "idle"
    /\ \E sig \in SeqsUpTo(ExSigmas, MaxLen) :
          IF AnyZero(sig)
          THEN ExOutcome("_derivative_of_firing_rates_wrt_mean_input",
                         sig, "ZeroDivisionError", {})
          ELSE ExOutcome("_derivative_of_firing_rates_wrt_mean_input",
                         sig, Phi_prime_mu_error(sig),
                         IF Phi_prime_mu_error(sig) = "none"
                         THEN {"_delta_firing_rate",
                               "_derivative_of_delta_firing_rates",
                               "_Phi_prime_mu", "_Phi"}
                         ELSE {"_delta_firing_rate",
                               "_derivative_of_delta_firing_rates",
                               "_Phi_prime_mu"})

\* _Phi_prime_mu(s, sigma) called on its own.
_Phi_prime_mu ==
    /\ ex_pc = "idle"
    /\ \E sig \in SeqsUpTo(ExSigmas, MaxLen) :
          ExOutcome("_Phi_prime_mu", sig, Phi_prime_mu_error(sig), {})

\* The caller takes the result or the exception.
Ex_Return ==
    /\ ex_pc \in {"done", "error"}
    /\ ex_pc' = "idle"
    /\ ex_fn' = "none"
    /\ ex_args' = <<>>
    /\ ex_result' = <<>>
    /\ ex_evaluated' = {}
    /\ ex_warned' = FALSE
    /\ ex_error' = "none"

----------------------------------------------------------------------------
\* The result functions of lif/exp.py on a network: each reads its
\* parameters from network.network_params and its precomputed inputs from
\* network.results, and hands its computation to _cache, which stores what
\* the computation returns under the function's key.

\* Largest number of populations.
MaxPop == 2
\* Largest number of frequencies.
MaxFreq == 2
\* Largest rank of D.
MaxRank == 4

\* The keys of network.network_params a complete network has.
AllParams ==
    {"J", "K", "V_0_rel", "V_th_rel", "tau_m", "tau_s", "tau_r", "K_ext",
     "J_ext", "nu_ext", "tau_m_ext", "D", "N", "omegas"}

\* Shapes of D: a vector, a matrix for one frequency, one matrix per
\* frequency, and arrays of other ranks.  The transfer function is stored
\* for the frequencies of D.
DShapes ==
    {[rank |-> r, F |-> f, N |-> n] :
        r \in 0..MaxRank, f \in 1..MaxFreq, n \in 1..MaxPop}
    \ {[rank |-> r, F |-> f, N |-> n] :
        r \in {1, 2}, f \in 2..MaxFreq, n \in 1..MaxPop}

\* list_of_params and the keys read from network.results, in the order of
\* the code, per result function.
NeedsParams(f) ==
    CASE f = "firing_rates" ->
             {"J", "K", "V_0_rel", "V_th_rel", "tau_m", "tau_s", "tau_r",
              "K_ext", "J_ext", "nu_ext", "tau_m_ext"}
      [] f \in {"mean_input", "std_input"} ->
             {"J", "K", "tau_m", "J_ext", "K_ext", "nu_ext", "tau_m_ext"}
      [] f = "transfer_function" ->
             {"tau_m", "tau_s", "tau_r", "V_th_rel", "V_0_rel", "omegas"}
      [] f = "effective_connectivity" -> {"D", "J", "K", "tau_m"}
      [] f = "power_spectra" -> {"J", "K", "N", "tau_m"}
      [] OTHER -> {}

NeedsResults_uncheckedPropagator(f) ==
    CASE f \in {"mean_input", "std_input"} -> <<"firing_rates">>
      [] f = "transfer_function" -> <<"mean_input", "std_input">>
      [] f = "effective_connectivity" -> <<"transfer_function">>
      [] f = "sensitivity_measure" -> <<"effective_connectivity">>
      [] f = "power_spectra" ->
             <<"firing_rates", "effective_connectivity">>
      [] OTHER -> <<>>
NeedsResults(f) ==
    CASE f \in {"mean_input", "std_input"} -> <<"firing_rates">>
      [] f = "transfer_function" -> <<"mean_input", "std_input">>
      [] f = "effective_connectivity" -> <<"transfer_function">>
      [] f \in {"propagator", "sensitivity_measure"} ->
             <<"effective_connectivity">>
      [] f = "power_spectra" ->
             <<"firing_rates", "effective_connectivity">>
      [] OTHER -> <<>>

\* The first key of seq that is not in present ("" if all are): the key
\* of the KeyError.
RECURSIVE FirstMissing(_, _)
FirstMissing(seq, present) ==
    IF seq = <<>> THEN ""
    ELSE IF Head(seq) \notin present THEN Head(seq)
    ELSE FirstMissing(Tail(seq), present)

\* Arrays are functions from index tuples to entries.  The transfer
\* function of shape (F, N): the entry of frequency f and population i.
TransferFunction(F, N) ==
    [p \in (1..F) \X (1..N) |-> [f |-> p[1], pop |-> p[2]]]

\* A.T of a matrix
Transpose2(A) ==
    [p \in {<<q[2], q[1]>> : q \in DOMAIN A} |-> A[<<p[2], p[1]>>]]

\* np.tile(A, (n, 1)) of a matrix with `rows` rows: its rows n times.
TileRows(A, n, rows, cols) ==
    [p \in (1..(n * rows)) \X (1..cols) |->
        A[<<((p[1] - 1) % rows) + 1, p[2]>>]]

\* np.tile(A, (n, 1, 1)) of a matrix: n copies along a new first axis.
Tile3(A, n, rows, cols) ==
    [p \in (1..n) \X (1..rows) \X (1..cols) |-> A[<<p[2], p[3]>>]]

\* np.einsum('ijk->kji', T)
Einsum_kji(T) ==
    [p \in {<<q[3], q[2], q[1]>> : q \in DOMAIN T} |->
        T[<<p[3], p[2], p[1]>>]]

\* np.tile(transfer_function, (K.shape[0], 1)).T
tf_rank2_untransposed(H, N, F) == TileRows(H, N, F, N)
tf_rank2(H, N, F) == Transpose2(TileRows(H, N, F, N))

\* np.einsum('ijk->kji', np.tile(transfer_function.T, (K.shape[0], 1, 1)))
tf_rank3(H, N, F) == Einsum_kji(Tile3(Transpose2(H), N, N, F))

\* tau_m * J * K * tf * D for arrays of one shape: the entry at index p
\* is the product of tau_m, J[i,j], K[i,j], tf[p] and D[p], (i, j) being
\* the last two indices of p.
Product(tf, idx) ==
    [p \in idx |->
        [J |-> <<p[Len(p) - 1], p[Len(p)]>>,
         K |-> <<p[Len(p) - 1], p[Len(p)]>>,
         tf |-> tf[p], D |-> p]]

\* _effective_connectivity(transfer_function, D, J, K, tau_m): the
\* exception it raises ("none" if it returns) and what it returns.
_effective_connectivity(D) ==
    LET H == TransferFunction(D.F, D.N)
        N == D.N
    IN  IF D.rank = 1
        THEN [error |-> "none",
              out |-> [p \in (1..N) \X (1..N) |->
                         [J |-> p, K |-> p, tf |-> H[<<1, p[2]>>],
                          D |-> <<p[2]>>]]]
        ELSE IF D.rank = 2
        THEN [error |-> "none",
              out |-> Product(tf_rank2(H, N, D.F), (1..N) \X (1..N))]
        ELSE IF D.rank = 3
        THEN [error |-> "none",
              out |-> Product(tf_rank3(H, N, D.F),
                              (1..D.F) \X (1..N) \X (1..N))]
        ELSE [error |-> "RuntimeError", out |-> <<>>]

NoNetError == [type |-> "none", names |-> ""]

InitNet ==
    /\ net_params = {}
    /\ net_D = [rank |-> 0, F |-> 1, N |-> 1]
    /\ net_results = {}
    /\ net_ec = <<>>
    /\ net_pc = "new"
    /\ net_fn = "none"
    /\ net_error = NoNetError
    /\ net_before = {}
    /\ net_computed = FALSE
    /\ net_none = {}
    /\ net_method = ""
    /\ net_returned = "nothing"

\* Network.__init__: the parameters are loaded, with D or without it; no
\* results are stored yet.
Network ==
    /\ net_pc = "new"
    /\ net_params' \in {AllParams, AllParams \ {"D"}}
    /\ net_D' \in DShapes
    /\ net_pc' = "idle"
    /\ UNCHANGED <<net_results, net_ec, net_fn, net_error, net_before,
                   net_computed, net_none, net_method, net_returned>>

\* The method arguments: the two the code knows and another one.
Methods == {"shift", "taylor", "other"}

\* What a result function leaves behind: st is network.results before (its
\* keys, those holding None, the effective connectivity).
NetOutcome(pcv, err, comp, st, ret) ==
    [pc |-> pcv, error |-> err, computed |-> comp, results |-> st.results,
     none |-> st.none, ec |-> st.ec, returned |-> ret]

\* The call ends with RuntimeError naming `what`; nothing is stored.
NetRaise(what, st) ==
    NetOutcome("error", [type |-> "RuntimeError", names |-> what], FALSE,
               st, "nothing")

\* _cache(network, func, params, key): the value func returned is stored
\* under key and returned.
_cache_noStore(f, value, ecv, st) ==
    NetOutcome("done", NoNetError, value # "None", st, value)
_cache_skipNone(f, value, ecv, st) ==
    NetOutcome("done", NoNetError, value # "None",
               IF value = "None" THEN st
               ELSE [results |-> st.results \cup {f},
                     none |-> st.none \ {f}, ec |-> ecv],
               value)
_cache(f, value, ecv, st) ==
    NetOutcome("done", NoNetError, value # "None",
               [results |-> st.results \cup {f},
                none |-> IF value = "None" THEN st.none \cup {f}
                         ELSE st.none \ {f},
                ec |-> ecv],
               value)

\* The frame of every result function f: the parameters, then the
\* precomputed results, then the dispatch on the method (firing_rates
\* inside _firing_rates, under _cache; transfer_function before _cache),
\* then _cache with the computation.  A computation on a stored None
\* raises TypeError.
ResultOutcome(f, method, st) ==
    IF ~(NeedsParams(f) \subseteq net_params)
    THEN NetRaise(CHOOSE k \in NeedsParams(f) : k \notin net_params, st)
    ELSE IF FirstMissing(NeedsResults(f), st.results) # ""
    THEN NetRaise(FirstMissing(NeedsResults(f), st.results), st)
    ELSE IF f = "transfer_function" /\ method \notin {"shift", "taylor"}
    THEN NetOutcome("done", NoNetError, FALSE, st, "None")
    ELSE IF f = "firing_rates" /\ method \notin {"shift", "taylor"}
    THEN _cache(f, "None", st.ec, st)
    ELSE IF \E k \in DOMAIN NeedsResults(f) : NeedsResults(f)[k] \in st.none
    THEN NetOutcome("error", [type |-> "TypeError", names |-> ""], TRUE,
                    st, "nothing")
    ELSE IF f = "effective_connectivity"
    THEN LET r == _effective_connectivity(net_D)
         IN  IF r.error # "none"
             THEN NetOutcome("error",
                             [type |-> r.error, names |-> "format"], TRUE,
                             st, "nothing")
             ELSE _cache(f, "value", r.out, st)
    ELSE _cache(f, "value", st.ec, st)

NetState == [results |-> net_results, none |-> net_none, ec |-> net_ec]

\* A call of the result function named fname that leaves the outcome r.
NetCall(fname, method, r) ==
    /\ net_fn' = fname
    /\ net_method' = method
    /\ net_before' = net_results
    /\ net_pc' = r.pc
    /\ net_error' = r.error
    /\ net_computed' = r.computed
    /\ net_results' = r.results
    /\ net_none' = r.none
    /\ net_ec' = r.ec
    /\ net_returned' = r.returned
    /\ UNCHANGED <<net_params, net_D>>

ResultFunction(f, method) ==
    /\ net_pc = "idle"
    /\ \E r \in {ResultOutcome(f, method, NetState)} : NetCall(f, method, r)

\* working_point(network, method): the dictionary display evaluates
\* firing_rates, mean_input and std_input in this order; the first
\* exception ends the call.
working_point ==
    /\ net_pc = "idle"
    /\ \E method \in Methods :
       \E r1 \in {ResultOutcome("firing_rates", method, NetState)} :
          IF r1.pc = "error"
          THEN NetCall("working_point", method, r1)
          ELSE \E r2 \in {ResultOutcome("mean_input", "", r1)} :
                  IF r2.pc = "error"
                  THEN NetCall("working_point", method, r2)
                  ELSE \E r3 \in {ResultOutcome("std_input", "", r2)} :
                          NetCall("working_point", method,
                                  [r3 EXCEPT !.computed =
                                      r1.computed \/ r2.computed
                                      \/ r3.computed])

firing_rates == \E method \in Methods : ResultFunction("firing_rates", method)

mean_input == ResultFunction("mean_input", "")

std_input == ResultFunction("std_input", "")

transfer_function ==
    \E method \in Methods : ResultFunction("transfer_function", method)

effective_connectivity == ResultFunction("effective_connectivity", "")

propagator == ResultFunction("propagator", "")

sensitivity_measure == ResultFunction("sensitivity_measure", "")

power_spectra == ResultFunction("power_spectra", "")

\* The caller has the value or the exception; the network keeps its
\* results.
Net_Return ==
    /\ net_pc \in {"done", "error"}
    /\ net_pc' = "idle"
    /\ UNCHANGED <<net_params, net_D, net_results, net_ec, net_fn,
                   net_error, net_before, net_computed, net_none,
                   net_method, net_returned>>

----------------------------------------------------------------------------
\* The sensitivity measure: lif/exp.py decomposes the effective
\* connectivity of every frequency, Circuit.get_sensitivity_measure of
\* network.py that of one frequency.  The eigendecomposition is an input:
\* the eigenvalues in the order eig returns them, as complex numbers in
\* twentieths.

Cx(re, im) == [re |-> re, im |-> im]

\* The eigenvalues of one effective connectivity matrix.
Spectra ==
    {<<Cx(4, 0), Cx(19, 2), Cx(0, 10)>>,
     <<Cx(19, 2), Cx(0, 10), Cx(4, 0)>>,
     <<Cx(40, 0), Cx(4, 0), Cx(16, 0)>>,
     <<Cx(10, 0), Cx(30, 0), Cx(-20, 0)>>,
     <<Cx(-30, 0), Cx(0, -18), Cx(0, 18)>>}

\* The index a caller passes: none, or one of the eigenmodes.
Indices == {0} \cup (1..3)

\* |e - 1| ** 2 and |e| ** 2: the orders of np.abs(e - 1) and np.abs(e)
SqDistToOne(e) == (e.re - 20) * (e.re - 20) + e.im * e.im

SqMagnitude(e) == e.re * e.re + e.im * e.im

\* np.argmin(np.abs(e - 1)): the first index of the smallest distance
ArgMaxMagnitude(e) ==
    CHOOSE k \in DOMAIN e :
        /\ \A m \in DOMAIN e : SqMagnitude(e[k]) >= SqMagnitude(e[m])
        /\ \A m \in 1..(k - 1) : SqMagnitude(e[m]) < SqMagnitude(e[k])
ArgMinDistToOne(e) ==
    CHOOSE k \in DOMAIN e :
        /\ \A m \in DOMAIN e : SqDistToOne(e[k]) <= SqDistToOne(e[m])
        /\ \A m \in 1..(k - 1) : SqDistToOne(e[m]) > SqDistToOne(e[k])

InitSens ==
    /\ sm_pc = "idle"
    /\ sm_fn = "none"
    /\ sm_args = [eigs |-> <<>>, index |-> 0]
    /\ sm_index = <<>>
    /\ sm_error = "none"

\* _sensitivity_measure(effective_connectivity) of lif/exp.py.  It has no
\* index parameter, so a call that passes one raises TypeError; in the
\* loop over the frequencies index is None before every test of it.
_sensitivity_measure ==
    /\ sm_pc = "idle"
    /\ \E eigs \in SeqsUpTo(Spectra, MaxFreq) \ {<<>>}, index \in Indices :
          /\ sm_fn' = "_sensitivity_measure"
          /\ sm_args' = [eigs |-> eigs, index |-> index]
          /\ IF index # 0
             THEN /\ sm_pc' = "error"
                  /\ sm_error' = "TypeError"
                  /\ sm_index' = <<>>
             ELSE /\ sm_pc' = "done"
                  /\ sm_error' = "none"
                  /\ sm_index' =
                        [i \in 1..Len(eigs) |-> ArgMinDistToOne(eigs[i])]

\* Circuit.get_sensitivity_measure(freq, index=None) of network.py
get_sensitivity_measure ==
    /\ sm_pc = "idle"
    /\ \E e \in Spectra, index \in Indices :
          /\ sm_fn' = "get_sensitivity_measure"
          /\ sm_args' = [eigs |-> <<e>>, index |-> index]
          /\ sm_pc' = "done"
          /\ sm_error' = "none"
          /\ sm_index' =
                <<IF index = 0 THEN ArgMinDistToOne(e) ELSE index>>

Sens_Return ==
    /\ sm_pc \in {"done", "error"}
    /\ sm_pc' = "idle"
    /\ UNCHANGED <<sm_fn, sm_args, sm_index, sm_error>>

----------------------------------------------------------------------------
\* The propagator and the power spectra of lif/exp.py.  Matrices have
\* complex integer entries; an inverse is kept exactly, as a matrix of
\* complex numerators over one positive real denominator.

CAdd(x, y) == Cx(x.re + y.re, x.im + y.im)

CSub(x, y) == Cx(x.re - y.re, x.im - y.im)

CMul(x, y) == Cx(x.re * y.re - x.im * y.im, x.re * y.im + x.im * y.re)

\* np.conjugate
CConj(x) == Cx(x.re, -x.im)

RECURSIVE CSum(_)
CSum(zs) == IF zs = <<>> THEN Cx(0, 0) ELSE CAdd(Head(zs), CSum(Tail(zs)))

\* The largest r with r * r <= x.
ISqrt(x) == CHOOSE r \in 0..x : r * r <= x /\ x < (r + 1) * (r + 1)

\* np.absolute
CAbs(x) == ISqrt(x.re * x.re + x.im * x.im)

\* np.identity(n) - W
IdentityMinus(W) ==
    [i \in 1..Len(W) |-> [j \in 1..Len(W) |->
        CSub(IF i = j THEN Cx(1, 0) ELSE Cx(0, 0), W[i][j])]]

\* np.dot of two matrices
MatMul(A, B) ==
    [i \in 1..Len(A) |-> [j \in 1..Len(B[1]) |->
        CSum([k \in 1..Len(B) |-> CMul(A[i][k], B[k][j])])]]

\* The determinant and the adjugate of a matrix of one or two rows.
Det(M) ==
    IF Len(M) = 1 THEN M[1][1]
    ELSE CSub(CMul(M[1][1], M[2][2]), CMul(M[1][2], M[2][1]))

Adj(M) ==
    IF Len(M) = 1 THEN <<<<Cx(1, 0)>>>>
    ELSE <<<<M[2][2], CSub(Cx(0, 0), M[1][2])>>,
           <<CSub(Cx(0, 0), M[2][1]), M[1][1]>>>>

\* np.linalg.inv(M): adj(M) * conj(det) / |det|**2; LinAlgError for a
\* singular matrix.
Inv(M) ==
    LET d == Det(M)
    IN  [singular |-> d = Cx(0, 0),
         den |-> d.re * d.re + d.im * d.im,
         num |-> [i \in 1..Len(M) |-> [j \in 1..Len(M) |->
                    CMul(Adj(M)[i][j], CConj(d))]]]

\* Effective connectivity matrices of one frequency.
Matrices1 ==
    {<<<<Cx(0, 0)>>>>, <<<<Cx(1, 0)>>>>, <<<<Cx(2, 0)>>>>,
     <<<<Cx(0, 1)>>>>, <<<<Cx(-1, 1)>>>>}

Matrices2 ==
    {<<<<Cx(0, 0), Cx(1, 0)>>, <<Cx(1, 0), Cx(0, 0)>>>>,
     <<<<Cx(0, 0), Cx(2, 0)>>, <<Cx(1, 0), Cx(0, 0)>>>>,
     <<<<Cx(0, 1), Cx(1, 0)>>, <<Cx(0, 0), Cx(-1, 0)>>>>,
     <<<<Cx(2, 0), Cx(0, -1)>>, <<Cx(1, 1), Cx(0, 0)>>>>}

\* Effective connectivities: one matrix per frequency.
Stacks ==
    (SeqsUpTo(Matrices1, MaxFreq) \cup SeqsUpTo(Matrices2, MaxFreq)) \ {<<>>}

\* Rates nu and population sizes N for n populations; nu / N is exact.
RateVectors(n) ==
    IF n = 1 THEN {<<-2>>, <<0>>, <<4>>} ELSE {<<2, 4>>, <<-2, 4>>}

SizeVectors(n) == IF n = 1 THEN {<<1>>, <<2>>} ELSE {<<1, 2>>}

InitLin ==
    /\ la_pc = "idle"
    /\ la_fn = "none"
    /\ la_args = <<>>
    /\ la_result = <<>>
    /\ la_error = "none"

\* The call returns the array of shape sh with the entries es, or raises.
LinOutcome(fname, ar, raised, sh, es) ==
    /\ la_fn' = fname
    /\ la_args' = ar
    /\ la_pc' = IF raised THEN "error" ELSE "done"
    /\ la_error' = IF raised THEN "LinAlgError" ELSE "none"
    /\ la_result' = IF raised THEN <<>> ELSE [shape |-> sh, entries |-> es]

\* _propagator(effective_connectivity) with an array of three axes: Q is
\* the inverse of I - W of every frequency, the result the products
\* np.dot(q, e) of the pairs of zip(Q, effective_connectivity).
propagator_q(Q, W) == [den |-> Q.den, num |-> Q.num]
propagator_qe(Q, W) == [den |-> Q.den, num |-> MatMul(Q.num, W)]

_propagator ==
    /\ la_pc = "idle"
    /\ \E ec \in Stacks :
          LET Q == [f \in 1..Len(ec) |-> Inv(IdentityMinus(ec[f]))]
          IN  LinOutcome("_propagator", [ec |-> ec, ndim |-> 3],
                         \E f \in 1..Len(ec) : Q[f].singular,
                         <<Len(ec), Len(ec[1]), Len(ec[1])>>,
                         [f \in 1..Len(ec) |-> propagator_qe(Q[f], ec[f])])

\* _propagator with the matrix of one frequency, as _effective_connectivity
\* returns it for D of rank 2: zip pairs the rows of Q with the rows of
\* the matrix, and np.dot of two rows is their inner product.
_propagator_matrix ==
    /\ la_pc = "idle"
    /\ \E W \in Matrices1 \cup Matrices2 :
          LET Q == Inv(IdentityMinus(W))
          IN  LinOutcome("_propagator", [ec |-> W, ndim |-> 2],
                         Q.singular, <<Len(W)>>,
                         [i \in 1..Len(W) |->
                            [den |-> Q.den,
                             num |-> CSum([k \in 1..Len(W) |->
                                        CMul(Q.num[i][k], W[i][k])])]])

\* C[k,k] of C = Q * A * Q^H with A = diag(nu / N), as numerator over the
\* square of the denominator of Q.
CovDiag(Q, ar, k) ==
    CSum([j \in 1..Len(Q.num) |->
            CMul(CMul(Q.num[k][j], Cx(ar.nu[j] \div ar.N[j], 0)),
                 CConj(Q.num[k][j]))])

\* power[i] = np.absolute(np.diag(C))
power_absolute(Q, ar, k) == CAbs(CovDiag(Q, ar, k))

\* _power_spectra(nu, effective_connectivity, J, K, N, tau_m)
_power_spectra ==
    /\ la_pc = "idle"
    /\ \E ec \in Stacks :
       \E nu_ \in RateVectors(Len(ec[1])), N_ \in SizeVectors(Len(ec[1])) :
          LET Q == [f \in 1..Len(ec) |-> Inv(IdentityMinus(ec[f]))]
              ar == [ec |-> ec, ndim |-> 3, nu |-> nu_, N |-> N_]
          IN  LinOutcome("_power_spectra", ar,
                         \E f \in 1..Len(ec) : Q[f].singular,
                         <<Len(ec), Len(ec[1])>>,
                         [f \in 1..Len(ec) |-> [k \in 1..Len(ec[1]) |->
                            [den |-> Q[f].den * Q[f].den,
                             num |-> power_absolute(Q[f], ar, k)]]])

Lin_Return ==
    /\ la_pc \in {"done", "error"}
    /\ la_pc' = "idle"
    /\ UNCHANGED <<la_fn, la_args, la_result, la_error>>

----------------------------------------------------------------------------
\* transfer_function of meanfield_calcs.py: one call of
\* transfer_function_1p_shift per population and omega, all with the
\* caller's V_th_rel and V_0_rel.

\* The caller's threshold and reset: Python floats or numpy arrays.
CallerObjects(kind) ==
    [kind |-> kind, V_th_rel |-> MaxV * Scale, V_0_rel |-> 0]

InitMC ==
    /\ mc_pc = "idle"
    /\ mc_caller = CallerObjects("float")
    /\ mc_par = <<>>
    /\ mc_i = 0
    /\ mc_k = 0
    /\ mc_evals = <<>>

\* The caller makes its parameters.
MC_Params ==
    /\ mc_pc = "idle"
    /\ \E kind \in {"float", "ndarray"} : mc_caller' = CallerObjects(kind)
    /\ mc_evals' = <<>>
    /\ UNCHANGED <<mc_pc, mc_par, mc_i, mc_k>>

\* transfer_function(mu, sigma, ..., V_th_rel, V_0_rel, dimension, omegas)
\* is entered.
MC_Call ==
    /\ mc_pc = "idle"
    /\ \E sigma \in SeqsUpTo(Sigmas, MaxDim), sq \in SqrtTauRatios,
          omegas \in SeqsUpTo({0, MaxOmega}, MaxLen) :
          mc_par' = [sigma |-> sigma, sqrt_ratio |-> sq, omegas |-> omegas]
    /\ mc_pc' = "loop"
    /\ mc_i' = 1
    /\ mc_k' = 1
    /\ mc_evals' = <<>>
    /\ UNCHANGED mc_caller

\* @ureg.wraps hands the function the magnitude of each argument converted
\* to the declared unit: a value of its own, not the caller's object.
wraps_sameObject(v) == [value |-> v, shared |-> TRUE]
wraps(v) == [value |-> v, shared |-> FALSE]

\* V += d inside the function.  A float is rebound; an array is changed in
\* place, which reaches the caller's object if the function was handed it.
AfterAdd(kind, arg, d) ==
    [local |-> arg.value + d,
     caller |-> IF kind = "ndarray" /\ arg.shared
                THEN arg.value + d ELSE arg.value]

\* One transfer_function_1p_shift(mu[i], sigma[i], ..., V_th_rel, V_0_rel,
\* omega) of the list comprehension: omegas inside, populations outside.
MC_Step ==
    /\ mc_pc = "loop"
    /\ LET d == Shifted(0, mc_par.sigma[mc_i], mc_par.sqrt_ratio)
           th == AfterAdd(mc_caller.kind, wraps(mc_caller.V_th_rel), d)
           v0 == AfterAdd(mc_caller.kind, wraps(mc_caller.V_0_rel), d)
           last_k == mc_k = Len(mc_par.omegas)
           last_i == mc_i = Len(mc_par.sigma)
       IN  /\ mc_evals' = Append(mc_evals,
                              [pop |-> mc_i, omega |-> mc_par.omegas[mc_k],
                               V_th |-> th.local, V_0 |-> v0.local])
           /\ mc_caller' = [mc_caller EXCEPT !.V_th_rel = th.caller,
                                             !.V_0_rel = v0.caller]
           /\ mc_k' = IF last_k THEN 1 ELSE mc_k + 1
           /\ mc_i' = IF last_k THEN mc_i + 1 ELSE mc_i
           /\ mc_pc' = IF last_k /\ last_i THEN "done" ELSE "loop"
    /\ UNCHANGED mc_par

\* The list of transfer functions is returned; the caller keeps its
\* objects for the next call.
MC_Return ==
    /\ mc_pc = "done"
    /\ mc_pc' = "idle"
    /\ UNCHANGED <<mc_caller, mc_par, mc_i, mc_k, mc_evals>>

----------------------------------------------------------------------------
\* The objects of network.py.  A Network loads its parameters from two
\* files, overwrites them with the parameters given to the constructor and
\* derives the matrices of the microcircuit; a Circuit keeps the full
\* connectivity next to the reduced one.

\* A value as a file or a caller gives it: a dictionary with val and unit,
\* a dictionary with val only, or an object that is no dictionary.
ValUnit(v, u) == [form |-> "val_unit", val |-> v, unit |-> u]

ValOnly(v) == [form |-> "val", val |-> v, unit |-> ""]

Object(v) == [form |-> "object", val |-> v, unit |-> ""]

\* A number, and a list of numbers (v holds the number as its one entry).
Num(n) == [list |-> FALSE, v |-> <<n>>]

List(xs) == [list |-> TRUE, v |-> xs]

\* formatval(val): a list becomes a numpy array, anything else is kept.
formatval(val) ==
    IF val.list THEN [type |-> "ndarray", v |-> val.v]
    ELSE [type |-> "number", v |-> val.v]

\* One entry of val_unit_to_quantities: value and unit make a quantity, a
\* value alone or a non-dictionary is formatted.
to_quantity(raw) ==
    IF raw.form = "val_unit"
    THEN [quantity |-> TRUE, mag |-> formatval(raw.val), unit |-> raw.unit]
    ELSE [quantity |-> FALSE, mag |-> formatval(raw.val), unit |-> ""]

val_unit_to_quantities(d) == [k \in DOMAIN d |-> to_quantity(d[k])]

\* io.load_params(file): the dictionary of the file with its value-unit
\* pairs as quantities.
load_params(file) == val_unit_to_quantities(file)

\* The parameter files; times in even numbers of microseconds, weights in
\* tenths of pA.
NetworkParamsFile ==
    [k \in {"w", "g", "de", "di", "tau_m"} |->
        CASE k = "w" -> ValUnit(Num(878), "pA")
          [] k = "g" -> ValOnly(Num(4))
          [] k = "de" -> ValUnit(Num(1500), "us")
          [] k = "di" -> ValUnit(Num(750), "us")
          [] OTHER -> ValUnit(Num(10000), "us")]

AnalysisParamsFile ==
    [k \in {"df", "f_min", "f_max"} |->
        CASE k = "df" -> ValUnit(Num(3), "Hz")
          [] k = "f_min" -> ValUnit(Num(1), "Hz")
          [] OTHER -> ValUnit(Num(100), "Hz")]

\* The values a caller may give for a key.
NewValues(k) ==
    CASE k = "w" -> {ValUnit(Num(100), "pA")}
      [] k = "de" -> {ValUnit(Num(4), "us"), ValUnit(Num(2000), "us")}
      [] k = "tau_m" -> {ValUnit(List(<<10, 20>>), "ms"), ValOnly(Num(1))}
      [] k = "label" -> {Object(Num(7))}
      [] OTHER -> {ValUnit(Num(1000), "Hz"), ValOnly(Num(5))}

AllNewValues ==
    UNION {NewValues(k) : k \in {"w", "de", "tau_m", "label", "df"}}

\* The dictionaries a caller may give over the keys ks.
NewParams(ks) ==
    UNION {{d \in [S -> AllNewValues] : \A k \in S : d[k] \in NewValues(k)} :
             S \in SUBSET ks}

\* a.update(b)
dict_update_keep(x, y) ==
    [k \in DOMAIN x \cup DOMAIN y |-> IF k \in DOMAIN x THEN x[k] ELSE y[k]]
dict_update(x, y) ==
    [k \in DOMAIN x \cup DOMAIN y |-> IF k \in DOMAIN y THEN y[k] ELSE x[k]]

\* The indegree matrix of the circuit.
FullConnectivity == <<<<4, 2>>, <<6, 8>>>>

\* Masks of the shape of the connectivity and of other shapes.
Masks ==
    [1..2 -> [1..2 -> {0, 1}]]
    \cup {<<<<1, 1>>>>, <<<<1>>, <<1>>>>, <<<<1>>>>,
          [i \in 1..3 |-> [j \in 1..3 |-> 1]]}

\* M.shape
Shape(M) == <<Len(M), Len(M[1])>>

NoCall == [method |-> "none", mask |-> <<>>, before |-> <<>>,
           error |-> "none"]

InitObj ==
    /\ nw_pc = "none"
    /\ nw_new = <<>>
    /\ nw_network_params = <<>>
    /\ nw_analysis_params = <<>>
    /\ circ_M = FullConnectivity
    /\ circ_M_full = FullConnectivity
    /\ circ_ana_M = FullConnectivity
    /\ circ_last = NoCall

\* Network.__init__(network_params, analysis_params, new_network_params,
\* new_analysis_params): both files are loaded and converted, the new
\* parameters converted, and the loaded ones updated with them.
Network_init ==
    /\ nw_pc = "none"
    /\ \E nn \in NewParams({"w", "de", "tau_m", "label"}),
          na \in NewParams({"df"}) :
          /\ nw_new' = [network |-> nn, analysis |-> na]
          /\ nw_network_params' =
                dict_update(load_params(NetworkParamsFile),
                            val_unit_to_quantities(nn))
          /\ nw_analysis_params' =
                dict_update(load_params(AnalysisParamsFile),
                            val_unit_to_quantities(na))
    /\ nw_pc' = "built"
    /\ UNCHANGED <<circ_M, circ_M_full, circ_ana_M, circ_last>>

\* The number of populations of the microcircuit.
Dim8 == 8

\* np.ones((8,8)) * x, rows and columns counted from 0
Ones8(x) == [i \in 0..(Dim8 - 1) |-> [j \in 0..(Dim8 - 1) |-> x]]

\* The rows 1:8:2
OddRows == {i \in 1..(Dim8 - 1) : (i - 1) % 2 = 0}

\* np.transpose(M)
np_transpose_none(M) == M
np_transpose(M) ==
    [i \in 0..(Dim8 - 1) |-> [j \in 0..(Dim8 - 1) |-> M[j][i]]]

\* W = np.ones((8,8))*w; W[1:8:2] *= -g; W = np.transpose(W);
\* W[0][2] *= 2.0
WeightMatrix(w, g) ==
    LET W1 == [i \in 0..(Dim8 - 1) |-> [j \in 0..(Dim8 - 1) |->
                 IF i \in OddRows THEN Ones8(w)[i][j] * (-g)
                 ELSE Ones8(w)[i][j]]]
        W2 == np_transpose(W1)
    IN  [W2 EXCEPT ![0][2] = W2[0][2] * 2]

\* D = np.ones((8,8))*de; D[1:8:2] = np.ones(8)*di; D = np.transpose(D)
DelayMatrix(de, di) ==
    np_transpose([i \in 0..(Dim8 - 1) |-> [j \in 0..(Dim8 - 1) |->
                    IF i \in OddRows THEN di ELSE Ones8(de)[i][j]]])

\* x * 0.5 of a time in microseconds
Half(x) == (x * 5) \div 10

Magnitude(q) == q.mag.v[1]

\* Network._calculate_dependent_network_parameters
_calculate_dependent_network_parameters ==
    /\ nw_pc = "built"
    /\ LET P == nw_network_params
           w == Magnitude(P["w"])
           g == Magnitude(P["g"])
           de == Magnitude(P["de"])
           di == Magnitude(P["di"])
           derived ==
               [k \in {"de_sd", "di_sd", "W", "Delay", "Delay_sd"} |->
                  CASE k = "de_sd" -> Half(de)
                    [] k = "di_sd" -> Half(di)
                    [] k = "W" -> WeightMatrix(w, g)
                    [] k = "Delay" -> DelayMatrix(de, di)
                    [] OTHER -> DelayMatrix(Half(de), Half(di))]
       IN  nw_network_params' = dict_update(P, derived)
    /\ nw_pc' = "derived"
    /\ UNCHANGED <<nw_new, nw_analysis_params, circ_M, circ_M_full,
                   circ_ana_M, circ_last>>

\* M_original = self.M_full[:]
M_original_current == circ_M
M_original == circ_M_full

\* Circuit.reduce_connectivity(M_red)
reduce_connectivity ==
    \E M_red \in Masks :
            IF Shape(M_red) # Shape(M_original)
            THEN /\ circ_last' = [method |-> "reduce_connectivity",
                                  mask |-> M_red, before |-> circ_M,
                                  error |-> "RuntimeError"]
                 /\ UNCHANGED <<circ_M, circ_M_full, circ_ana_M>>
            ELSE /\ circ_M' = [i \in 1..Len(M_original) |->
                                 [j \in 1..Len(M_original[i]) |->
                                    M_original[i][j] * M_red[i][j]]]
                 /\ circ_ana_M' = circ_M'
                 /\ circ_last' = [method |-> "reduce_connectivity",
                                  mask |-> M_red, before |-> circ_M,
                                  error |-> "none"]
                 /\ UNCHANGED circ_M_full

\* Circuit.restore_full_connectivity()
restore_full_connectivity ==
    /\ circ_M' = circ_M_full
    /\ circ_ana_M' = circ_M'
    /\ circ_last' = [method |-> "restore_full_connectivity", mask |-> <<>>,
                     before |-> circ_M, error |-> "none"]
    /\ UNCHANGED circ_M_full

----------------------------------------------------------------------------
\* The specifications.  Each lets one component run and holds the
\* others in their initial state.

Init == InitRate /\ InitFR /\ InitTF /\ InitEx /\ InitNet /\ InitSens /\ InitLin
    /\ InitMC /\ InitObj

Next ==
    \/ Call_nu_0 /\ UNCHANGED NotRate
    \/ Call_nu0_dPhi /\ UNCHANGED NotRate
    \/ OrderPass /\ UNCHANGED NotRate
    \/ OrderExhausted /\ UNCHANGED NotRate
    \/ Evaluate_nu_0 /\ UNCHANGED NotRate
    \/ Evaluate_nu0_dPhi /\ UNCHANGED NotRate
    \/ Return /\ UNCHANGED NotRate

Spec == Init /\ [][Next]_vars

NextFR ==
    \/ FR_Call /\ UNCHANGED NotFR
    \/ FR_Iterate /\ UNCHANGED NotFR
    \/ FR_Exit /\ UNCHANGED NotFR
    \/ FR_Return /\ UNCHANGED NotFR

\* The loop is ordinary sequential code: while the process runs, the next
\* pass or the exit is taken.
FR_Progress == (FR_Iterate \/ FR_Exit) /\ UNCHANGED NotFR

SpecFR == Init /\ [][NextFR]_vars /\ WF_vars(FR_Progress)

NextTF ==
    \/ _transfer_function_shift /\ UNCHANGED NotTF
    \/ transfer_function_1p_shift /\ UNCHANGED NotTF
    \/ _transfer_function_taylor /\ UNCHANGED NotTF
    \/ transfer_function_1p_taylor /\ UNCHANGED NotTF
    \/ TF_Return /\ UNCHANGED NotTF

SpecTF == Init /\ [][NextTF]_vars

NextEx ==
    \/ nu0_fb433 /\ UNCHANGED NotEx
    \/ _firing_rate_taylor /\ UNCHANGED NotEx
    \/ _derivative_of_firing_rates_wrt_mean_input /\ UNCHANGED NotEx
    \/ _Phi_prime_mu /\ UNCHANGED NotEx
    \/ Ex_Return /\ UNCHANGED NotEx

SpecEx == Init /\ [][NextEx]_vars

NextNet ==
    \/ Network /\ UNCHANGED NotNet
    \/ working_point /\ UNCHANGED NotNet
    \/ firing_rates /\ UNCHANGED NotNet
    \/ mean_input /\ UNCHANGED NotNet
    \/ std_input /\ UNCHANGED NotNet
    \/ transfer_function /\ UNCHANGED NotNet
    \/ effective_connectivity /\ UNCHANGED NotNet
    \/ propagator /\ UNCHANGED NotNet
    \/ sensitivity_measure /\ UNCHANGED NotNet
    \/ power_spectra /\ UNCHANGED NotNet
    \/ Net_Return /\ UNCHANGED NotNet

SpecNet == Init /\ [][NextNet]_vars

NextSens ==
    \/ _sensitivity_measure /\ UNCHANGED NotSens
    \/ get_sensitivity_measure /\ UNCHANGED NotSens
    \/ Sens_Return /\ UNCHANGED NotSens

SpecSens == Init /\ [][NextSens]_vars

NextLin ==
    \/ _propagator /\ UNCHANGED NotLin
    \/ _propagator_matrix /\ UNCHANGED NotLin
    \/ _power_spectra /\ UNCHANGED NotLin
    \/ Lin_Return /\ UNCHANGED NotLin

SpecLin == Init /\ [][NextLin]_vars

NextMC ==
    \/ MC_Params /\ UNCHANGED NotMC
    \/ MC_Call /\ UNCHANGED NotMC
    \/ MC_Step /\ UNCHANGED NotMC
    \/ MC_Return /\ UNCHANGED NotMC

SpecMC == Init /\ [][NextMC]_vars

NextObj ==
    \/ Network_init /\ UNCHANGED NotObj
    \/ _calculate_dependent_network_parameters /\ UNCHANGED NotObj

SpecObj == Init /\ [][NextObj]_vars

NextCirc ==
    \/ /\ reduce_connectivity
       /\ UNCHANGED <<nw_pc, nw_new, nw_network_params, nw_analysis_params>>
       /\ UNCHANGED NotObj
    \/ /\ restore_full_connectivity
       /\ UNCHANGED <<nw_pc, nw_new, nw_network_params, nw_analysis_params>>
       /\ UNCHANGED NotObj

SpecCirc == Init /\ [][NextCirc]_vars

----------------------------------------------------------------------------
\* Properties of one rate evaluation (specification Spec).

\* The masks have been computed.
Evaluated == Len(mask.exc) > 0

\* Number of masks that are true for element i.
MaskCount(i) ==
    (IF mask.exc[i] THEN 1 ELSE 0) + (IF mask.inh[i] THEN 1 ELSE 0)
    + (IF mask.interm[i] THEN 1 ELSE 0)

\* The _erfcx_integral call logged for helper h (<<>> if none).
CallsOf(h) == SelectSeq(calls, LAMBDA c : c.helper = h)

RECURSIVE Pow2(_)
Pow2(k) == IF k = 0 THEN 1 ELSE 2 * Pow2(k - 1)

\* C1 as stated: for every element exactly one of the three masks is true
\* and a finished evaluation wrote the element exactly once.
C1_ExactlyOneMask_AllInputs ==
    Evaluated =>
        \A i \in 1..Len(y_th) :
            /\ MaskCount(i) = 1
            /\ pc = "done" => Len(written[i]) = 1

\* C1 amended: at least one mask is true for every element; for every
\* element with y_r <= y_th exactly one mask is true, and a finished
\* evaluation wrote that element exactly once, by the branch of that mask.
C1_ExactlyOneMask ==
    Evaluated =>
        \A i \in 1..Len(y_th) :
            /\ MaskCount(i) >= 1
            /\ y_r[i] <= y_th[i] =>
                 /\ MaskCount(i) = 1
                 /\ pc = "done" =>
                      /\ Len(written[i]) = 1
                      /\ written[i][1] = "exc" <=> mask.exc[i]
                      /\ written[i][1] = "inh" <=> mask.inh[i]
                      /\ written[i][1] = "interm" <=> mask.interm[i]

\* C1 witness: a finished evaluation of two ordered elements that lie in
\* different branches, one of them on the boundary y_r = 0.
C1_Witness ==
    /\ pc = "done"
    /\ Len(y_th) = 2
    /\ \A i \in 1..2 : y_r[i] <= y_th[i]
    /\ mask.exc[1]
    /\ mask.interm[2]
    /\ y_r[2] = 0

\* C2: a returned order is start_order * 2^k for some k < maxiter, the
\* orders tried are start_order * 2^0 .. 2^k in this sequence, the last one
\* passed the tolerance test and every one before it failed.
C2_SmallestPassingOrder ==
    gl_order # 0 =>
        \E k \in 0..(maxiter - 1) :
            /\ gl_order = start_order * Pow2(k)
            /\ Len(tried) = k + 1
            /\ \A j \in 1..(k + 1) : tried[j] = start_order * Pow2(j - 1)
            /\ prior_failed
            /\ ~rel_error.nan
            /\ rel_error.v < epsrel

\* C2 witness: the search returned after two failed orders.
C2_Witness ==
    /\ pc = "done"
    /\ gl_order = 4 * start_order
    /\ Len(tried) = 3

\* C3: the search makes at most maxiter evaluations; while it runs a next
\* step exists; an order is only returned if its evaluation passed the
\* test; RuntimeError is raised exactly after maxiter failed evaluations
\* and carries the last relative error; the evaluation of the branches
\* only starts with a returned order.
C3_SearchEndsOrRaises ==
    /\ Len(tried) = iter
    /\ iter <= maxiter
    /\ pc = "order" => ENABLED (OrderPass \/ OrderExhausted)
    /\ gl_order # 0 =>
          /\ ~rel_error.nan
          /\ rel_error.v < epsrel
          /\ gl_order = tried[Len(tried)]
    /\ error.type = "RuntimeError" =>
          /\ iter = maxiter
          /\ gl_order = 0
          /\ error.rel_error = rel_error
          /\ rel_error.nan \/ rel_error.v >= epsrel
          /\ prior_failed
    /\ pc \in {"domains", "done"} => gl_order # 0
    /\ (pc = "error" /\ gl_order = 0) => error.type = "RuntimeError"

\* C3 witness: the budget was exhausted with a finite relative error.
C3_Witness ==
    /\ pc = "error"
    /\ error.type = "RuntimeError"
    /\ ~error.rel_error.nan
    /\ error.rel_error.v = 2 * epsrel

\* C5 as stated: with V_th > V_0 every _erfcx_integral call of the branch
\* helpers has bounds 0 <= a <= b.
C5_BoundsOrdered_AllBranches ==
    (pc # "idle" /\ args.V_th_rel > args.V_0_rel) =>
        \A n \in 1..Len(calls) : \A i \in 1..Len(calls[n].lo) :
            /\ 0 <= calls[n].lo[i]
            /\ calls[n].lo[i] <= calls[n].hi[i]

\* C5 amended: with V_th > V_0 both bounds of every such call are >= 0, and
\* a < b in the calls of _siegert_exc and _siegert_inh; _siegert_interm
\* passes a = y_th and b = |y_r| in either order.
C5_BoundsNonNegative ==
    (pc # "idle" /\ args.V_th_rel > args.V_0_rel) =>
        \A n \in 1..Len(calls) : \A i \in 1..Len(calls[n].lo) :
            /\ 0 <= calls[n].lo[i]
            /\ 0 <= calls[n].hi[i]
            /\ calls[n].helper \in {"exc", "inh"} =>
                  calls[n].lo[i] < calls[n].hi[i]

\* C5 witness: a finished evaluation with V_th > V_0 in which
\* _siegert_interm integrated from a larger to a smaller bound.
C5_Witness ==
    /\ pc = "done"
    /\ args.V_th_rel > args.V_0_rel
    /\ \E n \in 1..Len(calls) :
          /\ calls[n].helper = "interm"
          /\ \E i \in 1..Len(calls[n].lo) : calls[n].lo[i] > calls[n].hi[i]

\* C6 as stated: for every element routed to the excitatory branch the
\* integral is taken over [min(|y_th|,|y_r|), max(|y_th|,|y_r|)].
C6_ExcMinMax_AnyOrder ==
    Evaluated =>
        \A i \in 1..Len(y_th) :
            (mask.exc[i] /\ CallsOf("exc") # <<>>) =>
                LET c == CallsOf("exc")[1]
                    r == Rank(mask.exc, i)
                IN  /\ c.lo[r] = Min2(Abs(y_th[i]), Abs(y_r[i]))
                    /\ c.hi[r] = Max2(Abs(y_th[i]), Abs(y_r[i]))

\* C6 amended: for every element routed to the excitatory branch the
\* integral runs from |y_th| to |y_r|; this is [min, max] whenever
\* y_r <= y_th; the rate written is 1/(t_ref + tau_m*sqrt(pi)*I).
C6_ExcFromThToR ==
    Evaluated =>
        \A i \in 1..Len(y_th) :
            mask.exc[i] =>
                /\ Len(CallsOf("exc")) = 1
                /\ LET c == CallsOf("exc")[1]
                       r == Rank(mask.exc, i)
                   IN  /\ c.lo[r] = Abs(y_th[i])
                       /\ c.hi[r] = Abs(y_r[i])
                       /\ y_r[i] <= y_th[i] =>
                            /\ c.lo[r] = Min2(Abs(y_th[i]), Abs(y_r[i]))
                            /\ c.hi[r] = Max2(Abs(y_th[i]), Abs(y_r[i]))
                       /\ (pc = "done" /\ written[i] = <<"exc">>) =>
                            nu[i] = Rate(Scale,
                                      args.tau_r * Scale + args.tau_m
                                      * Mul(SqrtPi, quad_erfcx(c.lo[r], c.hi[r])))

\* C6 witness: a finished evaluation with an excitatory element for which
\* |y_r| < |y_th|.
C6_Witness ==
    /\ pc = "done"
    /\ \E i \in 1..Len(y_th) :
          /\ mask.exc[i]
          /\ Abs(y_r[i]) < Abs(y_th[i])

\* C7: within one call there is one order search, its range is
\* [min, max] over |y_th| and |y_r| of all elements, and every call of a
\* branch helper carries the order that search returned; a finished
\* evaluation called all three helpers.
C7_OneOrderPerCall ==
    pc # "idle" =>
        /\ order_calls = 1
        /\ \A i \in 1..Len(y_th) :
              /\ a <= Abs(y_th[i]) /\ a <= Abs(y_r[i])
              /\ b >= Abs(y_th[i]) /\ b >= Abs(y_r[i])
        /\ \E i \in 1..Len(y_th) : a = Abs(y_th[i]) \/ a = Abs(y_r[i])
        /\ \E i \in 1..Len(y_th) : b = Abs(y_th[i]) \/ b = Abs(y_r[i])
        /\ \A n \in 1..Len(calls) : calls[n].order = gl_order
        /\ pc = "done" =>
              /\ Len(calls) = 3
              /\ \A h \in {"exc", "inh", "interm"} : Len(CallsOf(h)) = 1

\* C7 witness: a finished evaluation of two elements in different branches
\* with an order other than the start order.
C7_Witness ==
    /\ pc = "done"
    /\ gl_order = 2 * start_order
    /\ Len(y_th) = 2
    /\ mask.inh[1]
    /\ mask.exc[2]

\* C8: the rate at y_th = y_r = 0 is computed (no exception) and has the
\* value of the boundary, 1/tau_r, on which the branch formulas agree.
C8_BoundaryComputed ==
    (/\ pc \in {"done", "error"}
     /\ \A i \in 1..Len(y_th) : y_th[i] = 0 /\ y_r[i] = 0) =>
        /\ pc = "done"
        /\ \A i \in 1..Len(nu) : nu[i].den = nu[i].num * args.tau_r

----------------------------------------------------------------------------
\* Properties of the fixed-point iteration of firing_rates

----------------------------------------------------------------------------
\* Properties of the shift-method transfer function

TFDone == tf_pc = "done"

ShiftFns == {"_transfer_function_shift", "transfer_function_1p_shift"}

TaylorFns == {"_transfer_function_taylor", "transfer_function_1p_taylor"}

\* C10: a frequency is evaluated by the DC branch, at the shifted threshold
\* and reset, if and only if |omega| < 1e-15 and by the general formula
\* otherwise; every row of the result is written by exactly one of the two
\* branches, and the general formula is never evaluated at a DC frequency.
C10_BranchByTolerance ==
    (TFDone /\ tf_fn \in ShiftFns) =>
        /\ Len(tf_result) = Len(tf_args.omegas)
        /\ \A i \in 1..Len(tf_result) :
              /\ tf_result[i].branch = "dc"
                     <=> Abs(tf_args.omegas[i]) < OmegaTol
              /\ tf_result[i].branch = "general"
                     <=> Abs(tf_args.omegas[i]) >= OmegaTol
              /\ tf_result[i].writes = 1
              /\ tf_result[i].omega = tf_args.omegas[i]
              /\ tf_result[i].V_th
                     = Shifted(tf_args.V_th_rel, tf_args.sigma,
                               tf_args.sqrt_ratio)
              /\ tf_result[i].V_0
                     = Shifted(tf_args.V_0_rel, tf_args.sigma,
                               tf_args.sqrt_ratio)
        /\ \A w \in tf_general : Abs(w) >= OmegaTol
        /\ tf_general = {tf_args.omegas[i] : i \in
                            {j \in 1..Len(tf_args.omegas) :
                                 Abs(tf_args.omegas[j]) >= OmegaTol}}

\* A vectorised call with a DC row at a tiny negative frequency and a
\* general row at a negative frequency beyond the tolerance.
C10_Witness ==
    /\ TFDone
    /\ tf_fn = "_transfer_function_shift"
    /\ Len(tf_result) = 2
    /\ tf_args.omegas[1] = -(OmegaTol - 1)
    /\ tf_result[1].branch = "dc"
    /\ tf_args.omegas[2] = -OmegaTol
    /\ tf_result[2].branch = "general"

VectorFns == {"_transfer_function_shift", "_transfer_function_taylor"}

\* C11: in the Taylor-method transfer function a frequency is evaluated by
\* the DC branch if and only if |omega| < 1e-15, negative frequencies
\* included; every other frequency uses the general formula.
C11_TaylorBranchByTolerance ==
    (TFDone /\ tf_fn \in TaylorFns) =>
        \A i \in 1..Len(tf_result) :
            /\ tf_result[i].branch = "dc"
                   <=> Abs(tf_args.omegas[i]) < OmegaTol
            /\ tf_result[i].branch = "general"
                   <=> Abs(tf_args.omegas[i]) >= OmegaTol

\* The rows of a vectorised call before the filter is applied.
RawRows ==
    LET zm == IF tf_fn = "_transfer_function_shift"
              THEN zero_omega_mask(tf_args.omegas)
              ELSE zero_omega_mask_taylor(tf_args.omegas)
        sh == tf_fn = "_transfer_function_shift"
    IN  ShiftRows(tf_args.omegas, Len(tf_result[1].factor),
                  IF sh THEN Shifted(tf_args.V_th_rel, tf_args.sigma,
                                     tf_args.sqrt_ratio)
                        ELSE tf_args.V_th_rel * Scale,
                  IF sh THEN Shifted(tf_args.V_0_rel, tf_args.sigma,
                                     tf_args.sqrt_ratio)
                        ELSE tf_args.V_0_rel * Scale,
                  zm, regular_mask(zm), FALSE, tf_args.tau_s).rows

\* C14: for both methods the result with synaptic_filter=True is the result
\* with synaptic_filter=False with every (frequency, population) entry,
\* DC rows included, multiplied by 1/(1 + i*omega*tau_s); with
\* synaptic_filter=False no entry carries such a factor.
C14_FilterOnEveryEntry ==
    (TFDone /\ tf_fn \in VectorFns) =>
        \A i \in 1..Len(tf_result) :
            /\ tf_result[i].filtered = tf_args.synaptic_filter
            /\ [tf_result[i] EXCEPT !.filtered = FALSE,
                   !.factor = [j \in 1..tf_result[i].cols |-> NoFactor]]
                 = RawRows[i]
            /\ Len(tf_result[i].factor) = tf_result[i].cols
            /\ \A j \in 1..tf_result[i].cols :
                  tf_result[i].factor[j] =
                      IF tf_args.synaptic_filter
                      THEN [applied |-> TRUE, omega |-> tf_args.omegas[i],
                            tau_s |-> tf_args.tau_s]
                      ELSE NoFactor

\* A filtered Taylor result of two populations with a DC row and a general
\* row.
C14_Witness ==
    /\ TFDone
    /\ tf_fn = "_transfer_function_taylor"
    /\ tf_args.synaptic_filter
    /\ Len(tf_result) = 2
    /\ tf_result[1].branch = "dc"
    /\ tf_result[2].branch = "general"
    /\ tf_result[1].cols = 2
    /\ tf_result[1].factor[2].applied

\* C15: _equalize_shape brings all arguments to the maximum input length L,
\* broadcasting the inputs of length 1; RuntimeError is raised if and only
\* if some input has a length that is neither 1 nor L, and then no branch
\* of the transfer function has been evaluated.
C15_EqualizeOrRaise ==
    (tf_pc \in {"done", "error"} /\ tf_fn \in VectorFns) =>
        LET lens == ArgLens(tf_args.mu, tf_args.tau_r)
            L == SeqMax(lens)
            bad == \E k \in 1..Len(lens) : lens[k] # 1 /\ lens[k] # L
        IN  /\ tf_pc = "error" <=> bad
            /\ tf_pc = "error" =>
                  /\ tf_error = "RuntimeError"
                  /\ tf_result = <<>>
                  /\ tf_general = {}
            /\ tf_pc = "done" =>
                  /\ tf_error = "none"
                  /\ Len(tf_result) = Len(tf_args.omegas)
                  /\ \A i \in 1..Len(tf_result) :
                        /\ tf_result[i].cols = L
                        /\ tf_result[i].writes = 1

\* A call that raised because mu has two entries and tau_r three.
C15_Witness ==
    /\ tf_pc = "error"
    /\ tf_fn = "_transfer_function_shift"
    /\ Len(tf_args.mu) = 2
    /\ Len(tf_args.tau_r) = 3
    /\ tf_error = "RuntimeError"

----------------------------------------------------------------------------
\* Properties of the exponential-synapse rates (specification SpecEx)

ExDone == ex_pc = "done"

RateFns == {"nu0_fb433", "_firing_rate_taylor"}

C13_WarnIffNegative ==
    (ex_fn = "_firing_rate_taylor" /\ ex_pc # "idle") =>
        /\ ExDone
        /\ ex_error = "none"
        /\ ex_warned <=> \E i \in 1..Len(ex_result) : ex_result[i] < 0
        /\ Len(ex_result) = Len(ex_args.mu)
        /\ \A i \in 1..Len(ex_result) :
              ex_result[i] = TaylorCorrected(ex_args.nu0[i], ex_args.q[i])

\* A warned call that returned a negative and a positive element.
C13_Witness ==
    /\ ExDone
    /\ ex_fn = "_firing_rate_taylor"
    /\ ex_warned
    /\ Len(ex_result) = 2
    /\ ex_result[1] < 0
    /\ ex_result[2] > 0

\* C16: the input-derivative of the exponential-synapse rate ends with
\* ZeroDivisionError whenever an element of sigma is 0, and _Phi_prime_mu
\* ends with ValueError whenever an element of sigma is negative; in both
\* cases nothing is returned.
C16_SigmaErrors ==
    ex_pc # "idle" =>
        /\ (ex_fn = "_derivative_of_firing_rates_wrt_mean_input"
            /\ \E i \in 1..Len(ex_args.sigma) : ex_args.sigma[i] = 0) =>
              /\ ex_pc = "error"
              /\ ex_error = "ZeroDivisionError"
              /\ ex_evaluated = {}
        /\ (ex_fn = "_Phi_prime_mu"
            /\ \E i \in 1..Len(ex_args.sigma) : ex_args.sigma[i] < 0) =>
              /\ ex_pc = "error"
              /\ ex_error = "ValueError"
        /\ ex_pc = "error" => (ex_result = <<>> /\ ex_error # "none")
        /\ ex_pc = "done" => ex_error = "none"

\* The derivative called with sigma = (1, 0).
C16_Witness ==
    /\ ex_pc = "error"
    /\ ex_fn = "_derivative_of_firing_rates_wrt_mean_input"
    /\ ex_args.sigma = <<1, 0>>
    /\ ex_error = "ZeroDivisionError"

NetEnded(f) == net_pc \in {"done", "error"} /\ net_fn = f

\* The entry (i, j) at frequency f of the effective connectivity under
\* the rules for matrices: J[i,j], K[i,j] and the transfer function of
\* the row population i at f.
RowEntry(f, i, j) ==
    [J |-> <<i, j>>, K |-> <<i, j>>, tf |-> [f |-> f, pop |-> i]]

EntryOf(e) == [J |-> e.J, K |-> e.K, tf |-> e.tf]

\* C17: _effective_connectivity dispatches on the rank of D: ranks 1, 2
\* and 3 have a rule each and every other rank raises RuntimeError; under
\* the rank-2 and rank-3 rules the entry (i, j) at a frequency is the
\* product of tau_m, J[i,j], K[i,j], D at that entry and the transfer
\* function of the row population i, and the two rules agree on a single
\* frequency.
C17_RankDispatch ==
    /\ (NetEnded("effective_connectivity") /\ net_computed) =>
          /\ (net_D.rank \notin {1, 2, 3}) <=>
                (net_pc = "error"
                 /\ net_error = [type |-> "RuntimeError", names |-> "format"])
          /\ (net_D.rank \in {1, 2, 3}) <=> (net_pc = "done")
          /\ (net_pc = "done" /\ net_D.rank = 2) =>
                /\ DOMAIN net_ec = (1..net_D.N) \X (1..net_D.N)
                /\ \A p \in DOMAIN net_ec :
                      /\ EntryOf(net_ec[p]) = RowEntry(1, p[1], p[2])
                      /\ net_ec[p].D = p
          /\ (net_pc = "done" /\ net_D.rank = 3) =>
                /\ DOMAIN net_ec =
                      (1..net_D.F) \X (1..net_D.N) \X (1..net_D.N)
                /\ \A p \in DOMAIN net_ec :
                      /\ EntryOf(net_ec[p]) = RowEntry(p[1], p[2], p[3])
                      /\ net_ec[p].D = p
    /\ \A n \in 1..MaxPop : \A i, j \in 1..n :
          EntryOf(_effective_connectivity(
                      [rank |-> 2, F |-> 1, N |-> n]).out[<<i, j>>])
          = EntryOf(_effective_connectivity(
                        [rank |-> 3, F |-> 1, N |-> n]).out[<<1, i, j>>])

C17_Witness ==
    /\ NetEnded("effective_connectivity")
    /\ net_pc = "done"
    /\ net_D = [rank |-> 2, F |-> 1, N |-> 2]

\* The precomputed results each result function requires.
RequiredResults(f) ==
    CASE f \in {"mean_input", "std_input"} -> {"firing_rates"}
      [] f = "transfer_function" -> {"mean_input", "std_input"}
      [] f = "effective_connectivity" -> {"transfer_function"}
      [] f \in {"propagator", "sensitivity_measure"} ->
             {"effective_connectivity"}
      [] f = "power_spectra" -> {"firing_rates", "effective_connectivity"}
      [] OTHER -> {}

\* C18: a result function called on a network with all its parameters
\* while a precomputed result it requires is absent from network.results
\* raises RuntimeError naming a missing quantity, performs no computation
\* and stores no result; with all of them present it does not raise that
\* error.
C18_MissingPrerequisite ==
    \A f \in {"firing_rates", "mean_input", "std_input",
              "transfer_function", "effective_connectivity", "propagator",
              "sensitivity_measure", "power_spectra"} :
        (NetEnded(f) /\ NeedsParams(f) \subseteq net_params) =>
            IF RequiredResults(f) \subseteq net_before
            THEN ~(net_pc = "error" /\ net_error.names \in RequiredResults(f))
            ELSE /\ net_pc = "error"
                 /\ net_error.type = "RuntimeError"
                 /\ net_error.names \in RequiredResults(f) \ net_before
                 /\ ~net_computed
                 /\ net_results = net_before
                 /\ f \notin net_results

C18_Witness ==
    /\ NetEnded("power_spectra")
    /\ net_pc = "error"
    /\ net_before = {"firing_rates", "mean_input"}
    /\ net_error = [type |-> "RuntimeError",
                    names |-> "effective_connectivity"]

SensEnded == sm_pc \in {"done", "error"}

\* C19: for every frequency the sensitivity measure projects on the
\* eigenmode whose eigenvalue has the smallest Euclidean distance to 1,
\* not the one of largest magnitude, each frequency being decided on its
\* own; of the eigenvalues 0.2, 0.95+0.1i and 0.5i it selects 0.95+0.1i.
C19_ClosestToOne ==
    (sm_pc = "done" /\ sm_args.index = 0) =>
        \A i \in 1..Len(sm_args.eigs) :
            LET e == sm_args.eigs[i]
            IN  /\ sm_index[i] \in DOMAIN e
                /\ \A m \in DOMAIN e :
                      SqDistToOne(e[sm_index[i]]) <= SqDistToOne(e[m])
                /\ (\A m \in DOMAIN e :
                      e[m] \in {Cx(4, 0), Cx(19, 2), Cx(0, 10)})
                      => e[sm_index[i]] = Cx(19, 2)

C19_Witness ==
    /\ sm_pc = "done"
    /\ sm_fn = "_sensitivity_measure"
    /\ sm_args = [eigs |-> <<<<Cx(4, 0), Cx(19, 2), Cx(0, 10)>>,
                             <<Cx(40, 0), Cx(4, 0), Cx(16, 0)>>>>,
                  index |-> 0]
    /\ sm_index = <<2, 3>>

\* C20: when the caller of the sensitivity measure supplies an eigenmode
\* index, the call succeeds and that index is used for the projection at
\* every frequency; the eigenvalue closest to 1 is used only when no index
\* is supplied.
C20_CallerIndexUsed ==
    (SensEnded /\ sm_args.index # 0) =>
        /\ sm_pc = "done"
        /\ \A i \in 1..Len(sm_args.eigs) : sm_index[i] = sm_args.index

\* C27: on a network whose results are empty working_point succeeds
\* without any prior call: the firing rates are stored before mean_input
\* and std_input look them up, so neither raises the missing-result
\* error.
C27_WorkingPointFromEmpty ==
    (NetEnded("working_point") /\ net_before = {}
     /\ (AllParams \ {"D"}) \subseteq net_params) =>
        /\ ~(net_error.type = "RuntimeError"
             /\ net_error.names = "firing_rates")
        /\ net_method \in {"shift", "taylor"} =>
              /\ net_pc = "done"
              /\ net_error = NoNetError
              /\ net_results = {"firing_rates", "mean_input", "std_input"}
              /\ net_none = {}

C27_Witness ==
    /\ NetEnded("working_point")
    /\ net_pc = "done"
    /\ net_before = {}
    /\ net_method = "shift"
    /\ net_results = {"firing_rates", "mean_input", "std_input"}

\* A call of firing_rates or transfer_function with a method that is
\* neither 'shift' nor 'taylor', its parameters and precomputed results
\* being there.
UnknownMethodCall(f) ==
    /\ NetEnded(f)
    /\ net_method \notin {"shift", "taylor"}
    /\ NeedsParams(f) \subseteq net_params
    /\ RequiredResults(f) \subseteq net_before

\* C30 as stated: for every other method value the call does not raise,
\* performs no computation, stores no result and returns None.
C30_UnknownMethodStoresNothing ==
    \A f \in {"firing_rates", "transfer_function"} :
        UnknownMethodCall(f) =>
            /\ net_pc = "done"
            /\ net_returned = "None"
            /\ ~net_computed
            /\ net_results = net_before

\* C30: for every other method value the call does not raise, performs no
\* rate or transfer-function computation and returns None;
\* transfer_function stores no result, while firing_rates hands
\* _firing_rates to _cache, which stores the None it returns under the
\* key of the firing rates.
C30_UnknownMethodReturnsNone ==
    \A f \in {"firing_rates", "transfer_function"} :
        UnknownMethodCall(f) =>
            /\ net_pc = "done"
            /\ net_returned = "None"
            /\ ~net_computed
            /\ f = "transfer_function" => net_results = net_before
            /\ f = "firing_rates" =>
                  /\ net_results = net_before \cup {"firing_rates"}
                  /\ "firing_rates" \in net_none

C30_Witness ==
    /\ UnknownMethodCall("firing_rates")
    /\ net_before = {}
    /\ net_results = {"firing_rates"}
    /\ net_none = {"firing_rates"}

\* C28: for V_th > V_0 and sigma > 0 no assertion fails during a rate
\* evaluation: y_th and y_r have one shape, every element routed to
\* _siegert_exc has y_th < 0, to _siegert_inh 0 < y_r, to _siegert_interm
\* y_r <= 0 <= y_th, and both bounds of every _erfcx_integral call are
\* non-negative.
C28_NoAssertionFails ==
    (pc # "idle" /\ args.V_th_rel > args.V_0_rel) =>
        /\ error.type # "AssertionError"
        /\ Len(y_th) = Len(y_r)
        /\ a >= 0 /\ b >= 0
        /\ Evaluated =>
              /\ \A i \in 1..Len(y_th) :
                    /\ mask.exc[i] => y_th[i] < 0
                    /\ mask.inh[i] => 0 < y_r[i]
                    /\ mask.interm[i] => (y_r[i] <= 0 /\ 0 <= y_th[i])
              /\ \A n \in 1..Len(calls) :
                    erfcx_integral_assert(calls[n].lo, calls[n].hi)
              /\ pc = "done"

C28_Witness ==
    /\ pc = "done"
    /\ fn = "nu_0"
    /\ args.V_th_rel > args.V_0_rel
    /\ Len(calls) = 3
    /\ Len(y_th) = 2
    /\ mask.exc[1]
    /\ mask.interm[2]
    /\ y_r[2] < 0

LinEnded(f) == la_pc \in {"done", "error"} /\ la_fn = f

\* den * M
Scaled(den, M) ==
    [i \in 1..Len(M) |-> [j \in 1..Len(M[i]) |-> CMul(Cx(den, 0), M[i][j])]]

\* C21 as stated: for every frequency and population k the power spectrum
\* is the real part of C[k,k], C = Q * diag(nu/N) * Q^H, Q = (I - W)^-1,
\* for every rate vector nu, negative entries included.
C21_PowerIsRealPart ==
    (LinEnded("_power_spectra") /\ la_pc = "done") =>
        \A f \in 1..Len(la_args.ec) : \A k \in 1..Len(la_args.ec[f]) :
            LET Q == Inv(IdentityMinus(la_args.ec[f]))
            IN  /\ la_result.entries[f][k].den = Q.den * Q.den
                /\ la_result.entries[f][k].num = CovDiag(Q, la_args, k).re

C29_PropagatorKeepsShape ==
    (LinEnded("_propagator") /\ la_pc = "done") =>
        IF la_args.ndim = 2
        THEN /\ la_result.shape = <<Len(la_args.ec), Len(la_args.ec)>>
             /\ la_result.entries
                = MatMul(Inv(IdentityMinus(la_args.ec)).num, la_args.ec)
        ELSE /\ la_result.shape = <<Len(la_args.ec), Len(la_args.ec[1]),
                                    Len(la_args.ec[1])>>
             /\ \A f \in 1..Len(la_args.ec) :
                   la_result.entries[f].num
                   = MatMul(Inv(IdentityMinus(la_args.ec[f])).num,
                            la_args.ec[f])

\* C23: evaluating a transfer function never modifies its inputs: after
\* any sequence of calls the caller's V_th_rel and V_0_rel hold their
\* original values, so every evaluation of the loop of transfer_function
\* applies the threshold and reset shift exactly once, and a repeated call
\* evaluates with the same values.
C23_InputsUnmodified ==
    /\ mc_caller.V_th_rel = MaxV * Scale
    /\ mc_caller.V_0_rel = 0
    /\ \A n \in 1..Len(mc_evals) :
          LET e == mc_evals[n]
          IN  /\ e.V_th = Shifted(MaxV, mc_par.sigma[e.pop],
                                  mc_par.sqrt_ratio)
              /\ e.V_0 = Shifted(0, mc_par.sigma[e.pop], mc_par.sqrt_ratio)
              /\ \A k \in 1..Len(mc_evals) :
                    (mc_evals[k].pop = e.pop
                     /\ mc_evals[k].omega = e.omega) => mc_evals[k] = e

C23_Witness ==
    /\ mc_pc = "done"
    /\ mc_caller.kind = "ndarray"
    /\ Len(mc_par.sigma) = 2
    /\ Len(mc_evals) = 4
    /\ mc_evals[4].V_th > MaxV * Scale

\* C24: after constructing a Network, every key given in
\* new_network_params (new_analysis_params) maps in network_params
\* (analysis_params) to the converted new value, and every key not given
\* keeps the value loaded from the parameter file.
UpdatedBy(params, file, new) ==
    /\ DOMAIN params = DOMAIN file \cup DOMAIN new
    /\ \A k \in DOMAIN new : params[k] = to_quantity(new[k])
    /\ \A k \in DOMAIN file \ DOMAIN new : params[k] = load_params(file)[k]

C24_NewParamsOverride ==
    nw_pc = "built" =>
        /\ UpdatedBy(nw_network_params, NetworkParamsFile, nw_new.network)
        /\ UpdatedBy(nw_analysis_params, AnalysisParamsFile, nw_new.analysis)

C24_Witness ==
    /\ nw_pc = "built"
    /\ DOMAIN nw_new.network = {"tau_m", "label"}
    /\ DOMAIN nw_new.analysis = {"df"}
    /\ nw_network_params["tau_m"] # load_params(NetworkParamsFile)["tau_m"]
    /\ nw_network_params["tau_m"].mag.type = "ndarray"
    /\ nw_network_params["w"] = load_params(NetworkParamsFile)["w"]
    /\ nw_analysis_params["df"] # load_params(AnalysisParamsFile)["df"]

\* C25: the derived 8x8 matrices alternate by column: W[i][j] is w for even
\* j and -g*w for odd j, except W[0][2] = 2*w; Delay[i][j] is de for even j
\* and di for odd j; Delay_sd[i][j] is half of Delay[i][j].
C25_ColumnAlternating ==
    nw_pc = "derived" =>
        LET P == nw_network_params
            w == Magnitude(P["w"])
            g == Magnitude(P["g"])
            de == Magnitude(P["de"])
            di == Magnitude(P["di"])
        IN  \A i \in 0..(Dim8 - 1), j \in 0..(Dim8 - 1) :
                /\ P["W"][i][j] =
                      IF i = 0 /\ j = 2 THEN 2 * w
                      ELSE IF j % 2 = 0 THEN w ELSE (-g) * w
                /\ P["Delay"][i][j] = IF j % 2 = 0 THEN de ELSE di
                /\ 2 * P["Delay_sd"][i][j] = P["Delay"][i][j]

C25_Witness ==
    /\ nw_pc = "derived"
    /\ "w" \in DOMAIN nw_new.network
    /\ nw_network_params["W"][0][2] = 200
    /\ nw_network_params["W"][1][0] = 100
    /\ nw_network_params["W"][0][1] = -400
    /\ nw_network_params["Delay"][3][1] = 750
    /\ nw_network_params["Delay_sd"][1][3] = 375

\* C26: over any sequence of reduce_connectivity and
\* restore_full_connectivity calls M_full is never changed, a successful
\* reduce_connectivity(M_red) leaves M = M_full*M_red whatever was reduced
\* before, restore_full_connectivity leaves M = M_full, the analytics
\* object holds the same M, and a mask of another shape raises a
\* RuntimeError and leaves M as it was.
C26_ConnectivityReduction ==
    /\ circ_M_full = FullConnectivity
    /\ circ_ana_M = circ_M
    /\ circ_last.method = "restore_full_connectivity" => circ_M = circ_M_full
    /\ circ_last.method = "reduce_connectivity" =>
          IF Shape(circ_last.mask) = Shape(circ_M_full)
          THEN /\ circ_last.error = "none"
               /\ \A i \in 1..2, j \in 1..2 :
                     circ_M[i][j] = circ_M_full[i][j] * circ_last.mask[i][j]
          ELSE /\ circ_last.error = "RuntimeError"
               /\ circ_M = circ_last.before

C26_Witness ==
    /\ circ_last.method = "reduce_connectivity"
    /\ circ_last.error = "none"
    /\ circ_last.before[1][1] = 0
    /\ circ_last.mask[1][1] = 1
    /\ circ_last.mask[2][2] = 0
    /\ circ_M[1][1] = 4

\* A mask of another shape after an earlier reduction.
C26_WitnessRefused ==
    /\ circ_last.error = "RuntimeError"
    /\ circ_last.before # circ_M_full
    /\ circ_M = circ_last.before

====
